---------------------------- MODULE Spec2Model ----------------------------
(***************************************************************************)
(* Model of the two per-group engines of chat-to-prompt-model:             *)
(*   - FlexiblePaymentSystem (src/cost.py): the debt ledger and its greedy *)
(*     settlement;                                                         *)
(*   - InformationHub (src/core/info_hub.py): documents and inverted       *)
(*     indexes.                                                            *)
(*                                                                         *)
(* Amounts are integer multiples of one unit.  Every amount that reaches   *)
(* update() through the handlers is integer-valued (_parse_amount strips   *)
(* '.' and ',' and multiplies by 1, 1e3 or 1e6), so the 1e-9 tolerance     *)
(* tests of the code are tests against 0 here.  The += of update() rounds  *)
(* its sum to MantissaBits significant bits, as the float addition of the  *)
(* code does with 53; the amounts of SpecLedger and SpecSettle stay below  *)
(* 2^MantissaBits, where every sum is exact, and only SpecUpdate goes      *)
(* beyond.                                                                 *)
(*                                                                         *)
(* A Python dict is a sequence of <<key, value>> pairs in insertion order  *)
(* with unique keys.  A defaultdict of dicts is a function from every      *)
(* member id to such a dict: a missing row and an empty row are the same   *)
(* thing to every read in the code (each read goes through the             *)
(* defaultdict or through .get(key, 0)), so empty rows are not tracked.    *)
(***************************************************************************)
EXTENDS Integers, Sequences, FiniteSets, TLC

\* ------------------------------------------------------------------ bounds
NumMembers == 5      \* member ids are 1..NumMembers, ordered as Python orders the names
NumCallers == 3      \* the ids the ledger calls of SpecLedger are made with
MaxAmount == 2       \* update() amounts range over -MaxAmount..MaxAmount
MaxCalls == 3        \* ledger calls explored from a fresh ledger
MaxBalance == 4      \* SpecSettle: each member's debt to member 1 is in -MaxBalance..MaxBalance

SeqLimit == 2        \* stands for the 999 sequence numbers of _allocate_id
MaxHubCalls == 3     \* hub calls explored from a fresh hub
IdBase == 1000       \* ids are group_prefix * 1000 + sequence number

MantissaBits == 3    \* significant bits of an amount (53 in a Python float)
MaxWideCalls == 1    \* SpecUpdate: update() calls explored from each starting ledger
MaxGroupCalls == 3   \* SpecRegistry: calls explored from empty registries
NumThreads == 2      \* threads that call into one process at once

Member == 1..NumMembers
Caller == 1..NumCallers
Amount == (-MaxAmount)..MaxAmount
\* the ids the calls of SpecUpdate and SpecRegistry are made with
WideCaller == 1..2

VARIABLES members, original_debts, optimized_debts, lastCall, calls,
          hub, hubCall, hubCalls,
          _payment_system, _info_hub, ledgers, hubs, regCall, regCalls,
          threads, response

ledgerVars == <<members, original_debts, optimized_debts, lastCall, calls>>
hubVars == <<hub, hubCall, hubCalls>>
registryVars == <<_payment_system, _info_hub, ledgers, hubs, regCall, regCalls>>
\* the calls in progress, one per thread, and the last CommandResponse
requestVars == <<threads, response>>
vars == <<members, original_debts, optimized_debts, lastCall, calls,
          hub, hubCall, hubCalls,
          _payment_system, _info_hub, ledgers, hubs, regCall, regCalls,
          threads, response>>

\* ------------------------------------------------------------ Python dicts
DictHas(d, k) == \E i \in 1..Len(d) : d[i][1] = k

DictGet(d, k, default) ==
    IF DictHas(d, k) THEN d[CHOOSE i \in 1..Len(d) : d[i][1] = k][2] ELSE default

DictPut(d, k, v) ==
    IF DictHas(d, k)
    THEN [i \in 1..Len(d) |-> IF d[i][1] = k THEN <<k, v>> ELSE d[i]]
    ELSE Append(d, <<k, v>>)

DictDel(d, k) == SelectSeq(d, LAMBDA e : e[1] # k)

DictKeys(d) == [i \in 1..Len(d) |-> d[i][1]]

EmptyGraph == [m \in Member |-> <<>>]

\* The (debtor, creditor, amount) entries of a graph.
Edges(g) == UNION {{<<a, g[a][i][1], g[a][i][2]>> : i \in 1..Len(g[a])} : a \in Member}

RECURSIVE SumSet(_, _)
SumSet(S, f) ==
    IF S = {} THEN 0
    ELSE LET x == CHOOSE y \in S : TRUE IN f[x] + SumSet(S \ {x}, f)

\* --------------------------------------------------------- _get_net_balance
\* Variant with the sign of the second loop slipped (net += instead of net -=).
_get_net_balance_plus(mem, member_id, debt_graph) ==
    SumSet(mem, [other \in mem |-> DictGet(debt_graph[other], member_id, 0)])
    + SumSet(mem, [other \in mem |-> DictGet(debt_graph[member_id], other, 0)])

_get_net_balance(mem, member_id, debt_graph) ==
    SumSet(mem, [other \in mem |-> DictGet(debt_graph[other], member_id, 0)])
    - SumSet(mem, [other \in mem |-> DictGet(debt_graph[member_id], other, 0)])

\* ----------------------------------------------------------- remove_member
\* for other in list(graph[member_id].keys()):
\*     del graph[member_id][other]; del graph[other][member_id]
\* The second del raises KeyError when the reverse entry is absent.
RECURSIVE ClearDebts(_, _, _)
ClearDebts(graph, member_id, keys) ==
    IF keys = <<>> THEN [graph |-> graph, raised |-> FALSE]
    ELSE LET other == Head(keys)
             g1 == [graph EXCEPT ![member_id] = DictDel(@, other)]
         IN IF ~DictHas(g1[other], member_id)
            THEN [graph |-> g1, raised |-> TRUE]
            ELSE ClearDebts([g1 EXCEPT ![other] = DictDel(@, member_id)],
                            member_id, Tail(keys))

\* Variant that drops the member before the balance check.
remove_member_early_drop(mem, orig, opt, member_id) ==
    IF member_id \notin mem
    THEN [members |-> mem, original_debts |-> orig, optimized_debts |-> opt,
          result |-> "False"]
    ELSE [members |-> mem \ {member_id}, original_debts |-> orig,
          optimized_debts |-> opt, result |-> "ValueError"]

remove_member(mem, orig, opt, member_id) ==
    IF member_id \notin mem
    THEN [members |-> mem, original_debts |-> orig, optimized_debts |-> opt,
          result |-> "False"]
    ELSE IF _get_net_balance(mem, member_id, orig) # 0
    THEN [members |-> mem, original_debts |-> orig, optimized_debts |-> opt,
          result |-> "ValueError"]
    ELSE LET mem1 == mem \ {member_id}
             c1 == ClearDebts(orig, member_id, DictKeys(orig[member_id]))
             c2 == ClearDebts(opt, member_id, DictKeys(opt[member_id]))
         IN IF c1.raised
            THEN [members |-> mem1, original_debts |-> c1.graph,
                  optimized_debts |-> opt, result |-> "KeyError"]
            ELSE IF c2.raised
            THEN [members |-> mem1, original_debts |-> c1.graph,
                  optimized_debts |-> c2.graph, result |-> "KeyError"]
            ELSE [members |-> mem1, original_debts |-> c1.graph,
                  optimized_debts |-> c2.graph, result |-> "True"]

\* ------------------------------------------------------------------ update
RECURSIVE Pow2(_)
Pow2(n) == IF n = 0 THEN 1 ELSE 2 * Pow2(n - 1)

Abs(x) == IF x < 0 THEN -x ELSE x

\* The spacing of the representable amounts around magnitude v.
RECURSIVE Quantum(_, _)
Quantum(v, q) == IF v < Pow2(MantissaBits) * q THEN q ELSE Quantum(v, 2 * q)

\* Round to nearest, ties to the even mantissa.
RoundFloat(x) ==
    LET v == Abs(x)
        q == Quantum(v, 1)
        r == v % q
        low == v - r
        nearest == IF 2 * r < q THEN low
                   ELSE IF 2 * r > q THEN low + q
                   ELSE IF (low \div q) % 2 = 0 THEN low ELSE low + q
    IN IF x < 0 THEN -nearest ELSE nearest

\* x + y on floats
FloatAdd(x, y) == RoundFloat(x + y)

\* Variant that stores the amount instead of adding it.
update_overwrite(mem, orig, from_member, to_member, amount) ==
    [members |-> mem \cup {from_member, to_member},
     original_debts |-> [orig EXCEPT ![from_member] = DictPut(@, to_member, amount)]]

update(mem, orig, from_member, to_member, amount) ==
    [members |-> mem \cup {from_member, to_member},
     original_debts |-> [orig EXCEPT ![from_member] =
                            DictPut(@, to_member,
                                    FloatAdd(DictGet(@, to_member, 0), amount))]]

\* ----------------------------------------------- optimized_payment_process
\* heapq on (key, member) tuples: the pop is the least tuple.
TupleLE(e, f) == e[1] < f[1] \/ (e[1] = f[1] /\ e[2] <= f[2])

HeapMin(h) == CHOOSE e \in h : \A f \in h : TupleLE(e, f)

\* Variant that settles the whole debt whatever the credit is.
MinFirst(x, y) == x

Min(x, y) == IF x <= y THEN x ELSE y

Debtors(mem, orig) == {m \in mem : _get_net_balance(mem, m, orig) < 0}

Creditors(mem, orig) == {m \in mem : _get_net_balance(mem, m, orig) > 0}

\* Variant whose creditor heap pops the least credit first (the keys pushed
\* without the negation that turns heapq's min-heap into a max-heap).
HeapMax(h) == CHOOSE e \in h : \A f \in h : TupleLE(f, e)

RECURSIVE SettleLoopLeastCredit(_, _, _, _)
SettleLoopLeastCredit(debtors, creditors, opt, iters) ==
    IF debtors = {} \/ creditors = {}
    THEN [optimized_debts |-> opt, iters |-> iters]
    ELSE LET d == HeapMin(debtors)
             c == HeapMax(creditors)
             debtor == d[2]
             creditor == c[2]
             debt_amt == -d[1]
             credit_amt == -c[1]
             settlement == Min(debt_amt, credit_amt)
             opt1 == [opt EXCEPT ![debtor] = DictPut(@, creditor, settlement)]
             debtors1 == (debtors \ {d}) \cup
                         (IF debt_amt - settlement > 0
                          THEN {<<-(debt_amt - settlement), debtor>>} ELSE {})
             creditors1 == (creditors \ {c}) \cup
                           (IF credit_amt - settlement > 0
                            THEN {<<-(credit_amt - settlement), creditor>>} ELSE {})
         IN SettleLoopLeastCredit(debtors1, creditors1, opt1, iters + 1)

RECURSIVE SettleLoop(_, _, _, _)
SettleLoop(debtors, creditors, opt, iters) ==
    IF debtors = {} \/ creditors = {}
    THEN [optimized_debts |-> opt, iters |-> iters]
    ELSE LET d == HeapMin(debtors)
             c == HeapMin(creditors)
             debtor == d[2]
             creditor == c[2]
             debt_amt == -d[1]
             credit_amt == -c[1]
             settlement == Min(debt_amt, credit_amt)
             opt1 == [opt EXCEPT ![debtor] = DictPut(@, creditor, settlement)]
             debtors1 == (debtors \ {d}) \cup
                         (IF debt_amt - settlement > 0
                          THEN {<<-(debt_amt - settlement), debtor>>} ELSE {})
             creditors1 == (creditors \ {c}) \cup
                           (IF credit_amt - settlement > 0
                            THEN {<<-(credit_amt - settlement), creditor>>} ELSE {})
         IN SettleLoop(debtors1, creditors1, opt1, iters + 1)

\* Variant that hands back the recorded debts without netting them.
optimized_payment_process_no_netting(mem, orig, opt) ==
    [optimized_debts |-> orig, iters |-> 0]

optimized_payment_process(mem, orig, opt) ==
    IF mem = {}
    THEN [optimized_debts |-> opt, iters |-> 0]
    ELSE SettleLoop({<<_get_net_balance(mem, m, orig), m>> : m \in Debtors(mem, orig)},
                    {<<-_get_net_balance(mem, m, orig), m>> : m \in Creditors(mem, orig)},
                    EmptyGraph, 0)

\* ----------------------------------------------------- force_remove_member
\* `other` is the first member the set iteration yields that is not
\* member_id (any of them: set order of strings is not fixed), 0 when none.
force_remove_member(mem, orig, opt, member_id, settle_first, other) ==
    IF member_id \notin mem
    THEN [members |-> mem, original_debts |-> orig, optimized_debts |-> opt,
          result |-> "False"]
    ELSE IF ~settle_first
    THEN remove_member(mem, orig, opt, member_id)
    ELSE LET net_balance == _get_net_balance(mem, member_id, orig)
             orig1 == IF net_balance > 0 /\ other # 0
                      THEN [orig EXCEPT ![other] = DictPut(@, member_id, net_balance)]
                      ELSE IF net_balance < 0 /\ other # 0
                      THEN [orig EXCEPT ![member_id] = DictPut(@, other, -net_balance)]
                      ELSE orig
             opt1 == optimized_payment_process(mem, orig1, opt).optimized_debts
         IN remove_member(mem, orig1, opt1, member_id)

\* =========================================================== InformationHub
\* A text is a sequence of characters; a token is a sequence of lower-case
\* word characters.
Lower(c) == CASE c = "A" -> "a" [] c = "B" -> "b" [] OTHER -> c

IsWordChar(c) == c \in {"a", "b"}

\* re.findall(r'\b\w+\b', text.lower()): the maximal runs of word characters.
RECURSIVE Scan(_, _, _, _)
Scan(text, i, word, words) ==
    IF i > Len(text)
    THEN IF word = <<>> THEN words ELSE Append(words, word)
    ELSE IF IsWordChar(Lower(text[i]))
    THEN Scan(text, i + 1, Append(word, Lower(text[i])), words)
    ELSE Scan(text, i + 1, <<>>, IF word = <<>> THEN words ELSE Append(words, word))

_tokenize(text) == Scan(text, 1, <<>>, <<>>)

\* (doc_id, position) tuples; Inf is the float('inf') of the range bounds.
Inf == -1

PosLess(p, q) == IF q = Inf THEN p # Inf ELSE IF p = Inf THEN FALSE ELSE p < q

PostingLess(x, y) == x[1] < y[1] \/ (x[1] = y[1] /\ PosLess(x[2], y[2]))

\* bisect.bisect_right(a, x) on a[lo..hi) (0-based bounds as in the library).
RECURSIVE BisectRight(_, _, _, _)
BisectRight(a, x, lo, hi) ==
    IF lo >= hi THEN lo
    ELSE LET mid == (lo + hi) \div 2
         IN IF PostingLess(x, a[mid + 1])
            THEN BisectRight(a, x, lo, mid)
            ELSE BisectRight(a, x, mid + 1, hi)

RECURSIVE BisectLeft(_, _, _, _)
BisectLeft(a, x, lo, hi) ==
    IF lo >= hi THEN lo
    ELSE LET mid == (lo + hi) \div 2
         IN IF PostingLess(a[mid + 1], x)
            THEN BisectLeft(a, x, mid + 1, hi)
            ELSE BisectLeft(a, x, lo, mid)

\* Variant that appends without searching for the position.
InsortAppend(a, x) == Append(a, x)

\* bisect.insort(a, x)
Insort(a, x) ==
    LET k == BisectRight(a, x, 0, Len(a))
    IN SubSeq(a, 1, k) \o <<x>> \o SubSeq(a, k + 1, Len(a))

\* index[word] of a defaultdict(list)
IndexGet(index, word) == IF word \in DOMAIN index THEN index[word] ELSE <<>>

IndexSet(index, word, entries) ==
    [w \in DOMAIN index \cup {word} |-> IF w = word THEN entries ELSE index[w]]

IndexDel(index, word) == [w \in DOMAIN index \ {word} |-> index[w]]

\* for pos, word in enumerate(words): bisect.insort(index[word], (doc_id, pos))
RECURSIVE IndexWords(_, _, _, _)
IndexWords(index, words, doc_id, pos) ==
    IF pos >= Len(words) THEN index
    ELSE LET word == words[pos + 1]
         IN IndexWords(IndexSet(index, word,
                                Insort(IndexGet(index, word), <<doc_id, pos>>)),
                       words, doc_id, pos + 1)

WordSet(words) == {words[i] : i \in 1..Len(words)}

\* The removal loop of delete_document / update_document for one index:
\* for each word of the document, delete entries[left:right] and drop the
\* word when no entry is left.
\* Variant whose range is empty (right bound taken with (doc_id, 0)): nothing
\* is removed.
RemovePostingsEmptyRange(index, wordset, doc_id) == index

RECURSIVE RemovePostings(_, _, _)
RemovePostings(index, wordset, doc_id) ==
    IF wordset = {} THEN index
    ELSE LET word == CHOOSE w \in wordset : TRUE
             entries == IndexGet(index, word)
             left == BisectLeft(entries, <<doc_id, 0>>, 0, Len(entries))
             right == BisectRight(entries, <<doc_id, Inf>>, 0, Len(entries))
             kept == IF left < right
                     THEN SubSeq(entries, 1, left) \o SubSeq(entries, right + 1, Len(entries))
                     ELSE entries
             index1 == IF kept = <<>> THEN IndexDel(index, word)
                       ELSE IndexSet(index, word, kept)
         IN RemovePostings(index1, wordset \ {word}, doc_id)

WordsOf(doc_words, doc_id) == IF doc_id \in DOMAIN doc_words THEN doc_words[doc_id] ELSE {}

SetWords(doc_words, doc_id, wordset) ==
    [d \in DOMAIN doc_words \cup {doc_id} |-> IF d = doc_id THEN wordset ELSE doc_words[d]]

DelWords(doc_words, doc_id) == [d \in DOMAIN doc_words \ {doc_id} |-> doc_words[d]]

Information(title, content, id) ==
    [title |-> title, content |-> content, id |-> id, deleted |-> FALSE]

\* InformationHub.__init__; documents holds the slots that are not None,
\* doc_len is len(self.documents).
InformationHub(prefix) ==
    [documents |-> <<>>, doc_len |-> 0, next_id |-> 1, group_prefix |-> prefix,
     deleted_ids |-> {}, title_index |-> <<>>, content_index |-> <<>>,
     doc_title_words |-> <<>>, doc_content_words |-> <<>>]

\* Variant without the test of the deleted flag.
ActiveSlotAnyDocument(h, doc_id) ==
    /\ doc_id <= h.doc_len
    /\ doc_id \in DOMAIN h.documents

\* doc_id <= len(documents) and documents[doc_id - 1] is not None and not deleted
ActiveSlot(h, doc_id) ==
    /\ doc_id <= h.doc_len
    /\ doc_id \in DOMAIN h.documents
    /\ ~h.documents[doc_id].deleted

\* Variant that mints while sequence numbers are left and reuses afterwards.
_allocate_id_mint_first(h, pick) ==
    IF h.deleted_ids # {} /\ h.next_id > SeqLimit
    THEN [hub |-> [h EXCEPT !.deleted_ids = @ \ {pick}], raised |-> FALSE, id |-> pick]
    ELSE IF h.next_id > SeqLimit
    THEN [hub |-> [h EXCEPT !.next_id = @ + 1], raised |-> TRUE, id |-> 0]
    ELSE [hub |-> [h EXCEPT !.next_id = @ + 1], raised |-> FALSE,
          id |-> h.group_prefix * IdBase + h.next_id]

\* Variant that tests the sequence limit before it looks at the pool.
_allocate_id_limit_first(h, pick) ==
    IF h.next_id > SeqLimit
    THEN [hub |-> [h EXCEPT !.next_id = @ + 1], raised |-> TRUE, id |-> 0]
    ELSE IF h.deleted_ids # {}
    THEN [hub |-> [h EXCEPT !.deleted_ids = @ \ {pick}], raised |-> FALSE, id |-> pick]
    ELSE [hub |-> [h EXCEPT !.next_id = @ + 1], raised |-> FALSE,
          id |-> h.group_prefix * IdBase + h.next_id]

\* Variant that does not advance next_id.
_allocate_id_no_advance(h, pick) ==
    IF h.deleted_ids # {}
    THEN [hub |-> [h EXCEPT !.deleted_ids = @ \ {pick}], raised |-> FALSE, id |-> pick]
    ELSE IF h.next_id > SeqLimit
    THEN [hub |-> h, raised |-> TRUE, id |-> 0]
    ELSE [hub |-> h, raised |-> FALSE, id |-> h.group_prefix * IdBase + h.next_id]

\* _allocate_id; `pick` is the id deleted_ids.pop() yields.
_allocate_id(h, pick) ==
    IF h.deleted_ids # {}
    THEN [hub |-> [h EXCEPT !.deleted_ids = @ \ {pick}], raised |-> FALSE, id |-> pick]
    ELSE LET id_val == h.next_id
             h1 == [h EXCEPT !.next_id = @ + 1]
         IN IF id_val > SeqLimit
            THEN [hub |-> h1, raised |-> TRUE, id |-> 0]
            ELSE [hub |-> h1, raised |-> FALSE, id |-> h.group_prefix * IdBase + id_val]

SetDocument(documents, doc_id, doc) ==
    [d \in DOMAIN documents \cup {doc_id} |-> IF d = doc_id THEN doc ELSE documents[d]]

Max(x, y) == IF x >= y THEN x ELSE y

add_document(h, title, content, pick) ==
    LET a == _allocate_id(h, pick)
        doc_id == a.id
        h1 == a.hub
    IN IF a.raised
       THEN [hub |-> h1, result |-> "OverflowError", id |-> 0]
       ELSE [hub |-> [h1 EXCEPT
                 !.doc_len = Max(@, doc_id),
                 !.documents = SetDocument(@, doc_id, Information(title, content, doc_id)),
                 !.title_index = IndexWords(@, _tokenize(title), doc_id, 0),
                 !.doc_title_words =
                     IF _tokenize(title) = <<>> THEN @
                     ELSE SetWords(@, doc_id, WordsOf(@, doc_id) \cup WordSet(_tokenize(title))),
                 !.content_index = IndexWords(@, _tokenize(content), doc_id, 0),
                 !.doc_content_words =
                     IF _tokenize(content) = <<>> THEN @
                     ELSE SetWords(@, doc_id, WordsOf(@, doc_id) \cup WordSet(_tokenize(content)))],
             result |-> "id", id |-> doc_id]

\* Variant that leaves the id out of the reuse pool.
delete_document_no_pool(h, doc_id) ==
    IF doc_id < 1 \/ ~ActiveSlot(h, doc_id)
    THEN [hub |-> h, result |-> "False"]
    ELSE [hub |-> [h EXCEPT
              !.documents = [@ EXCEPT ![doc_id].deleted = TRUE],
              !.title_index = RemovePostings(@, WordsOf(h.doc_title_words, doc_id), doc_id),
              !.content_index = RemovePostings(@, WordsOf(h.doc_content_words, doc_id), doc_id),
              !.doc_title_words = DelWords(@, doc_id),
              !.doc_content_words = DelWords(@, doc_id)],
          result |-> "True"]

delete_document(h, doc_id) ==
    IF doc_id < 1 \/ ~ActiveSlot(h, doc_id)
    THEN [hub |-> h, result |-> "False"]
    ELSE [hub |-> [h EXCEPT
              !.documents = [@ EXCEPT ![doc_id].deleted = TRUE],
              !.title_index = RemovePostings(@, WordsOf(h.doc_title_words, doc_id), doc_id),
              !.content_index = RemovePostings(@, WordsOf(h.doc_content_words, doc_id), doc_id),
              !.doc_title_words = DelWords(@, doc_id),
              !.doc_content_words = DelWords(@, doc_id),
              !.deleted_ids = @ \cup {doc_id}],
          result |-> "True"]

\* None for an argument that is not passed.
None == <<"None">>

\* Variant that drops the content argument.
update_document_title_only(h, doc_id, title, content) ==
    IF doc_id < 1 \/ ~ActiveSlot(h, doc_id)
    THEN [hub |-> h, result |-> "False"]
    ELSE LET doc == h.documents[doc_id]
             new_title == IF title # None THEN title ELSE doc.title
             t_index == RemovePostings(h.title_index, WordsOf(h.doc_title_words, doc_id), doc_id)
             c_index == RemovePostings(h.content_index, WordsOf(h.doc_content_words, doc_id), doc_id)
         IN [hub |-> [h EXCEPT
                 !.documents = [@ EXCEPT ![doc_id].title = new_title],
                 !.title_index = IndexWords(t_index, _tokenize(new_title), doc_id, 0),
                 !.content_index = IndexWords(c_index, _tokenize(doc.content), doc_id, 0),
                 !.doc_title_words = SetWords(@, doc_id, WordSet(_tokenize(new_title))),
                 !.doc_content_words = SetWords(@, doc_id, WordSet(_tokenize(doc.content)))],
             result |-> "True"]

update_document(h, doc_id, title, content) ==
    IF doc_id < 1 \/ ~ActiveSlot(h, doc_id)
    THEN [hub |-> h, result |-> "False"]
    ELSE LET doc == h.documents[doc_id]
             new_title == IF title # None THEN title ELSE doc.title
             new_content == IF content # None THEN content ELSE doc.content
             t_index == RemovePostings(h.title_index, WordsOf(h.doc_title_words, doc_id), doc_id)
             c_index == RemovePostings(h.content_index, WordsOf(h.doc_content_words, doc_id), doc_id)
         IN [hub |-> [h EXCEPT
                 !.documents = [@ EXCEPT ![doc_id].title = new_title,
                                         ![doc_id].content = new_content],
                 !.title_index = IndexWords(t_index, _tokenize(new_title), doc_id, 0),
                 !.content_index = IndexWords(c_index, _tokenize(new_content), doc_id, 0),
                 !.doc_title_words = SetWords(@, doc_id, WordSet(_tokenize(new_title))),
                 !.doc_content_words = SetWords(@, doc_id, WordSet(_tokenize(new_content)))],
             result |-> "True"]

\* get_document: the document, or NotFound for None.
NotFound == [title |-> None, content |-> None, id |-> 0, deleted |-> FALSE]

get_document(h, doc_id) ==
    IF doc_id < 1 \/ ~ActiveSlot(h, doc_id) THEN NotFound ELSE h.documents[doc_id]

\* get_stats: active_docs are the slots that hold a document not deleted.
get_stats(h) ==
    [total_documents |-> Cardinality({d \in DOMAIN h.documents : ~h.documents[d].deleted}),
     deleted_documents |-> Cardinality(h.deleted_ids),
     unique_title_words |-> Cardinality(DOMAIN h.title_index),
     unique_content_words |-> Cardinality(DOMAIN h.content_index)]

\* _filter_deleted
_filter_deleted(h, doc_ids) == {doc_id \in doc_ids : ActiveSlot(h, doc_id)}

\* Variant that reads the first posting only.
PostingIdsFirst(entries) == IF entries = <<>> THEN {} ELSE {entries[1][1]}

\* {doc_id for doc_id, _ in entries}
PostingIds(entries) == {entries[i][1] : i \in 1..Len(entries)}

\* The orders in which a set can be iterated.
RECURSIVE Orders(_)
Orders(S) ==
    IF S = {} THEN {<<>>}
    ELSE UNION {{<<x>> \o s : s \in Orders(S \ {x})} : x \in S}

\* Variant that appends the content-only matches first.
ResultsContentFirst(h, title_matches, content_only_matches) ==
    [i \in 1..(Len(title_matches) + Len(content_only_matches)) |->
        IF i <= Len(content_only_matches) THEN h.documents[content_only_matches[i]]
        ELSE h.documents[title_matches[i - Len(content_only_matches)]]]

\* The result list of search: the documents of the title matches, then those
\* of the content-only matches.
Results(h, title_matches, content_only_matches) ==
    [i \in 1..(Len(title_matches) + Len(content_only_matches)) |->
        IF i <= Len(title_matches) THEN h.documents[title_matches[i]]
        ELSE h.documents[content_only_matches[i - Len(title_matches)]]]

\* search: every list the call can return (the iteration order of the two
\* id sets is not fixed): title matches first, then content-only matches.
search(h, keyword) ==
    LET keywords == _tokenize(keyword)
    IN IF keywords = <<>> THEN {<<>>}
       ELSE LET search_term == keywords[1]
                title_matches == PostingIds(IndexGet(h.title_index, search_term))
                content_matches == PostingIds(IndexGet(h.content_index, search_term))
                content_only_matches == content_matches \ title_matches
                t == _filter_deleted(h, title_matches)
                c == _filter_deleted(h, content_only_matches)
            IN {Results(h, s1, s2) : s1 \in Orders(t), s2 \in Orders(c)}

\* --------------------------------------------------------------- hub calls
Texts == {<<"A">>, <<"b", " ", "a">>, <<"a", " ", "a">>}

Queries == {<<>>, <<" ">>, <<"A">>, <<"B", " ", "a">>, <<"a", "b">>, <<"a", " ", "b">>}

\* abs(hash(group_id)) % 1000 of the hubs explored
Prefixes == {0, 1}

\* The ids calls are made with: the ids the hub can mint, the one below them,
\* and one in the middle of the slots the document list pads below them.
IdInputs ==
    {hub.group_prefix * IdBase + k : k \in 0..SeqLimit}
        \cup {(hub.group_prefix * IdBase) \div 2}

NoHubCall ==
    [op |-> "init", doc_id |-> 0, title |-> None, content |-> None, result |-> "", id |-> 0,
     pool |-> {}]

\* The last call: its arguments, its outcome and the reuse pool it found.
HubCall(op, doc_id, title, content, result, id) ==
    [op |-> op, doc_id |-> doc_id, title |-> title, content |-> content,
     result |-> result, id |-> id, pool |-> hub.deleted_ids]

\* A fresh hub of some group, the group's ledger fresh as well.
HubInit ==
    /\ \E prefix \in Prefixes : hub = InformationHub(prefix)
    /\ hubCall = NoHubCall
    /\ hubCalls = 0
    /\ _payment_system = <<>>
    /\ _info_hub = <<>>
    /\ ledgers = <<>>
    /\ hubs = <<>>
    /\ regCall = [op |-> "init", group |-> "", ref |-> 0, created |-> FALSE]
    /\ regCalls = 0
    /\ members = {}
    /\ original_debts = EmptyGraph
    /\ optimized_debts = EmptyGraph
    /\ lastCall = [op |-> "init", a |-> 0, b |-> 0, amount |-> 0, result |-> "", iters |-> 0]
    /\ calls = 0
    /\ threads = <<>>
    /\ response = [user_input |-> <<>>, group |-> "", action_type |-> "",
                   handler |-> "", executed |-> FALSE]

AddDocument(title, content) ==
    /\ hubCalls < MaxHubCalls
    /\ \E pick \in (IF hub.deleted_ids = {} THEN {0} ELSE hub.deleted_ids) :
          LET r == add_document(hub, title, content, pick)
          IN /\ hub' = r.hub
             /\ hubCall' = HubCall("add_document", 0, title, content, r.result, r.id)
    /\ hubCalls' = hubCalls + 1
    /\ UNCHANGED ledgerVars
    /\ UNCHANGED registryVars
    /\ UNCHANGED requestVars

DeleteDocument(doc_id) ==
    /\ hubCalls < MaxHubCalls
    /\ LET r == delete_document(hub, doc_id)
       IN /\ hub' = r.hub
          /\ hubCall' = HubCall("delete_document", doc_id, None, None, r.result, 0)
    /\ hubCalls' = hubCalls + 1
    /\ UNCHANGED ledgerVars
    /\ UNCHANGED registryVars
    /\ UNCHANGED requestVars

UpdateDocument(doc_id, title, content) ==
    /\ hubCalls < MaxHubCalls
    /\ LET r == update_document(hub, doc_id, title, content)
       IN /\ hub' = r.hub
          /\ hubCall' = HubCall("update_document", doc_id, title, content, r.result, 0)
    /\ hubCalls' = hubCalls + 1
    /\ UNCHANGED ledgerVars
    /\ UNCHANGED registryVars
    /\ UNCHANGED requestVars

HubNext ==
    \/ \E title \in Texts, content \in Texts : AddDocument(title, content)
    \/ \E doc_id \in IdInputs : DeleteDocument(doc_id)
    \/ \E doc_id \in IdInputs, title \in Texts \cup {None}, content \in Texts \cup {None} :
          UpdateDocument(doc_id, title, content)

\* ------------------------------------------------------------ ledger calls
NoCall == [op |-> "init", a |-> 0, b |-> 0, amount |-> 0, result |-> "", iters |-> 0]

Call(op, a, b, amount, result, iters) ==
    [op |-> op, a |-> a, b |-> b, amount |-> amount, result |-> result, iters |-> iters]

LedgerInit ==
    /\ members = {}
    /\ original_debts = EmptyGraph
    /\ optimized_debts = EmptyGraph
    /\ lastCall = NoCall
    /\ calls = 0
    /\ hub = InformationHub(0)
    /\ hubCall = NoHubCall
    /\ hubCalls = 0
    /\ _payment_system = <<>>
    /\ _info_hub = <<>>
    /\ ledgers = <<>>
    /\ hubs = <<>>
    /\ regCall = [op |-> "init", group |-> "", ref |-> 0, created |-> FALSE]
    /\ regCalls = 0
    /\ threads = <<>>
    /\ response = [user_input |-> <<>>, group |-> "", action_type |-> "",
                   handler |-> "", executed |-> FALSE]

AddMember(m) ==
    /\ calls < MaxCalls
    /\ members' = members \cup {m}
    /\ lastCall' = Call("add_member", m, 0, 0, "None", 0)
    /\ calls' = calls + 1
    /\ UNCHANGED <<original_debts, optimized_debts>>
    /\ UNCHANGED hubVars
    /\ UNCHANGED registryVars
    /\ UNCHANGED requestVars

Update(f, t, amt) ==
    /\ calls < MaxCalls
    /\ LET r == update(members, original_debts, f, t, amt)
       IN /\ members' = r.members
          /\ original_debts' = r.original_debts
    /\ lastCall' = Call("update", f, t, amt, "None", 0)
    /\ calls' = calls + 1
    /\ UNCHANGED optimized_debts
    /\ UNCHANGED hubVars
    /\ UNCHANGED registryVars
    /\ UNCHANGED requestVars

OptimizedPaymentProcess ==
    /\ calls < MaxCalls
    /\ LET r == optimized_payment_process(members, original_debts, optimized_debts)
       IN /\ optimized_debts' = r.optimized_debts
          /\ lastCall' = Call("optimized_payment_process", 0, 0, 0, "graph", r.iters)
    /\ calls' = calls + 1
    /\ UNCHANGED <<members, original_debts>>
    /\ UNCHANGED hubVars
    /\ UNCHANGED registryVars
    /\ UNCHANGED requestVars

RemoveMember(m) ==
    /\ calls < MaxCalls
    /\ LET r == remove_member(members, original_debts, optimized_debts, m)
       IN /\ members' = r.members
          /\ original_debts' = r.original_debts
          /\ optimized_debts' = r.optimized_debts
          /\ lastCall' = Call("remove_member", m, 0, 0, r.result, 0)
    /\ calls' = calls + 1
    /\ UNCHANGED hubVars
    /\ UNCHANGED registryVars
    /\ UNCHANGED requestVars

ForceRemoveMember(m, settle_first) ==
    /\ calls < MaxCalls
    /\ \E other \in (IF members \ {m} = {} THEN {0} ELSE members \ {m}) :
         LET r == force_remove_member(members, original_debts, optimized_debts,
                                      m, settle_first, other)
         IN /\ members' = r.members
            /\ original_debts' = r.original_debts
            /\ optimized_debts' = r.optimized_debts
            /\ lastCall' = Call("force_remove_member", m, IF settle_first THEN 1 ELSE 0,
                                0, r.result, 0)
    /\ calls' = calls + 1
    /\ UNCHANGED hubVars
    /\ UNCHANGED registryVars
    /\ UNCHANGED requestVars

LedgerNext ==
    \/ \E m \in Caller : AddMember(m)
    \/ \E f \in Caller, t \in Caller, amt \in Amount : Update(f, t, amt)
    \/ OptimizedPaymentProcess
    \/ \E m \in Caller : RemoveMember(m)
    \/ \E m \in Caller, settle_first \in BOOLEAN : ForceRemoveMember(m, settle_first)

\* --------------------------------------------------------- group registries
\* _payment_system and _info_hub map a group id to an instance; an instance
\* is named by its position in ledgers (hubs), the objects constructed so far.
Group == {"g1", "g2"}

RegistryPut(registry, group_id, ref) ==
    [g \in DOMAIN registry \cup {group_id} |-> IF g = group_id THEN ref ELSE registry[g]]

\* FlexiblePaymentSystem.__init__
FlexiblePaymentSystem(group_id) ==
    [members |-> {}, original_debts |-> EmptyGraph, optimized_debts |-> EmptyGraph,
     group_id |-> group_id]

\* Variant whose registry hands the first instance to every group.
get_payment_system_shared(registry, objects, group_id) ==
    IF objects # <<>>
    THEN [registry |-> RegistryPut(registry, group_id, 1), objects |-> objects, ref |-> 1]
    ELSE [registry |-> RegistryPut(registry, group_id, 1),
          objects |-> <<FlexiblePaymentSystem(group_id)>>, ref |-> 1]

get_payment_system(registry, objects, group_id) ==
    IF group_id \in DOMAIN registry
    THEN [registry |-> registry, objects |-> objects, ref |-> registry[group_id]]
    ELSE [registry |-> RegistryPut(registry, group_id, Len(objects) + 1),
          objects |-> Append(objects, FlexiblePaymentSystem(group_id)),
          ref |-> Len(objects) + 1]

\* `prefix` is abs(hash(group_id)) % 1000 of the group, used when the hub is made.
get_info_hub(registry, objects, group_id, prefix) ==
    IF group_id \in DOMAIN registry
    THEN [registry |-> registry, objects |-> objects, ref |-> registry[group_id]]
    ELSE [registry |-> RegistryPut(registry, group_id, Len(objects) + 1),
          objects |-> Append(objects, InformationHub(prefix)),
          ref |-> Len(objects) + 1]

\* The last call: its group, the instance it used and whether it made it.
RegCall(op, group_id, ref, objects) ==
    [op |-> op, group |-> group_id, ref |-> ref, created |-> ref > Len(objects)]

\* Empty registries, the single-group variables idle.
RegistryInit ==
    /\ _payment_system = <<>>
    /\ _info_hub = <<>>
    /\ ledgers = <<>>
    /\ hubs = <<>>
    /\ regCall = [op |-> "init", group |-> "", ref |-> 0, created |-> FALSE]
    /\ regCalls = 0
    /\ members = {}
    /\ original_debts = EmptyGraph
    /\ optimized_debts = EmptyGraph
    /\ lastCall = [op |-> "init", a |-> 0, b |-> 0, amount |-> 0, result |-> "", iters |-> 0]
    /\ calls = 0
    /\ hub = InformationHub(0)
    /\ hubCall = [op |-> "init", doc_id |-> 0, title |-> None, content |-> None,
                  result |-> "", id |-> 0, pool |-> {}]
    /\ hubCalls = 0
    /\ threads = <<>>
    /\ response = [user_input |-> <<>>, group |-> "", action_type |-> "",
                   handler |-> "", executed |-> FALSE]

\* get_payment_system(g)
GetPaymentSystem(g) ==
    /\ regCalls < MaxGroupCalls
    /\ LET r == get_payment_system(_payment_system, ledgers, g)
       IN /\ _payment_system' = r.registry
          /\ ledgers' = r.objects
          /\ regCall' = RegCall("get_payment_system", g, r.ref, ledgers)
    /\ regCalls' = regCalls + 1
    /\ UNCHANGED <<_info_hub, hubs>>
    /\ UNCHANGED <<ledgerVars, hubVars>>
    /\ UNCHANGED requestVars

\* get_payment_system(g).update(f, t, amt)
GroupUpdate(g, f, t, amt) ==
    /\ regCalls < MaxGroupCalls
    /\ LET r == get_payment_system(_payment_system, ledgers, g)
           u == update(r.objects[r.ref].members, r.objects[r.ref].original_debts, f, t, amt)
       IN /\ _payment_system' = r.registry
          /\ ledgers' = [r.objects EXCEPT ![r.ref] =
                            [@ EXCEPT !.members = u.members,
                                      !.original_debts = u.original_debts]]
          /\ regCall' = RegCall("update", g, r.ref, ledgers)
    /\ regCalls' = regCalls + 1
    /\ UNCHANGED <<_info_hub, hubs>>
    /\ UNCHANGED <<ledgerVars, hubVars>>
    /\ UNCHANGED requestVars

\* get_payment_system(g).optimized_payment_process()
GroupOptimizedPaymentProcess(g) ==
    /\ regCalls < MaxGroupCalls
    /\ LET r == get_payment_system(_payment_system, ledgers, g)
           o == optimized_payment_process(r.objects[r.ref].members,
                                          r.objects[r.ref].original_debts,
                                          r.objects[r.ref].optimized_debts)
       IN /\ _payment_system' = r.registry
          /\ ledgers' = [r.objects EXCEPT ![r.ref].optimized_debts = o.optimized_debts]
          /\ regCall' = RegCall("optimized_payment_process", g, r.ref, ledgers)
    /\ regCalls' = regCalls + 1
    /\ UNCHANGED <<_info_hub, hubs>>
    /\ UNCHANGED <<ledgerVars, hubVars>>
    /\ UNCHANGED requestVars

\* get_info_hub(g)
GetInfoHub(g) ==
    /\ regCalls < MaxGroupCalls
    /\ \E prefix \in Prefixes :
          LET r == get_info_hub(_info_hub, hubs, g, prefix)
          IN /\ _info_hub' = r.registry
             /\ hubs' = r.objects
             /\ regCall' = RegCall("get_info_hub", g, r.ref, hubs)
    /\ regCalls' = regCalls + 1
    /\ UNCHANGED <<_payment_system, ledgers>>
    /\ UNCHANGED <<ledgerVars, hubVars>>
    /\ UNCHANGED requestVars

\* get_info_hub(g).add_document(title, content)
GroupAddDocument(g, title, content) ==
    /\ regCalls < MaxGroupCalls
    /\ \E prefix \in Prefixes :
          LET r == get_info_hub(_info_hub, hubs, g, prefix)
              h == r.objects[r.ref]
          IN \E pick \in (IF h.deleted_ids = {} THEN {0} ELSE h.deleted_ids) :
                /\ _info_hub' = r.registry
                /\ hubs' = [r.objects EXCEPT ![r.ref] =
                               add_document(h, title, content, pick).hub]
                /\ regCall' = RegCall("add_document", g, r.ref, hubs)
    /\ regCalls' = regCalls + 1
    /\ UNCHANGED <<_payment_system, ledgers>>
    /\ UNCHANGED <<ledgerVars, hubVars>>
    /\ UNCHANGED requestVars

\* get_info_hub(g).delete_document(group_prefix * 1000 + k)
GroupDeleteDocument(g, k) ==
    /\ regCalls < MaxGroupCalls
    /\ \E prefix \in Prefixes :
          LET r == get_info_hub(_info_hub, hubs, g, prefix)
              h == r.objects[r.ref]
          IN /\ _info_hub' = r.registry
             /\ hubs' = [r.objects EXCEPT ![r.ref] =
                            delete_document(h, h.group_prefix * IdBase + k).hub]
             /\ regCall' = RegCall("delete_document", g, r.ref, hubs)
    /\ regCalls' = regCalls + 1
    /\ UNCHANGED <<_payment_system, ledgers>>
    /\ UNCHANGED <<ledgerVars, hubVars>>
    /\ UNCHANGED requestVars

RegistryNext ==
    \/ \E g \in Group : GetPaymentSystem(g)
    \/ \E g \in Group, f \in WideCaller, amt \in 1..MaxAmount :
          \E t \in WideCaller \ {f} : GroupUpdate(g, f, t, amt)
    \/ \E g \in Group : GroupOptimizedPaymentProcess(g)
    \/ \E g \in Group : GetInfoHub(g)
    \/ \E g \in Group, title \in Texts : GroupAddDocument(g, title, title)
    \/ \E g \in Group, k \in 1..SeqLimit : GroupDeleteDocument(g, k)

\* ------------------------------------------------------------------ specs
\* The registries of the process and the engines of its groups, used by one
\* caller at a time.
SpecRegistry == RegistryInit /\ [][RegistryNext]_vars

\* The ledger of one group, its hub idle.
SpecLedger == LedgerInit /\ [][LedgerNext]_vars

\* The hub of one group, its ledger idle.
SpecHub == HubInit /\ [][HubNext]_vars

\* The hub after n calls add_document(title, content).
RECURSIVE Filled(_, _, _, _)
Filled(h, title, content, n) ==
    IF n = 0 THEN h
    ELSE Filled(add_document(h, title, content, 0).hub, title, content, n - 1)

\* A hub of some group in which every sequence number has been minted and
\* every document is active, the group's ledger fresh.
FullHubInit ==
    /\ \E prefix \in Prefixes, title \in Texts, content \in Texts :
          hub = Filled(InformationHub(prefix), title, content, SeqLimit)
    /\ hubCall = NoHubCall
    /\ hubCalls = 0
    /\ _payment_system = <<>>
    /\ _info_hub = <<>>
    /\ ledgers = <<>>
    /\ hubs = <<>>
    /\ regCall = [op |-> "init", group |-> "", ref |-> 0, created |-> FALSE]
    /\ regCalls = 0
    /\ members = {}
    /\ original_debts = EmptyGraph
    /\ optimized_debts = EmptyGraph
    /\ lastCall = [op |-> "init", a |-> 0, b |-> 0, amount |-> 0, result |-> "", iters |-> 0]
    /\ calls = 0
    /\ threads = <<>>
    /\ response = [user_input |-> <<>>, group |-> "", action_type |-> "",
                   handler |-> "", executed |-> FALSE]

\* The hub of one group from the point where its sequence numbers are used up.
FullHubNext ==
    \/ \E title \in Texts, content \in Texts : AddDocument(title, content)
    \/ \E doc_id \in IdInputs : DeleteDocument(doc_id)

SpecHubFull == FullHubInit /\ [][FullHubNext]_vars

\* A ledger on which update(1, 2, w), update(2, 1, v) and
\* optimized_payment_process() have run (a zero amount standing for no call),
\* w any amount below 2^MantissaBits; the group's hub idle.
UpdateInit ==
    /\ \E w \in 0..(Pow2(MantissaBits) - 1), v \in 0..MaxAmount :
          LET u1 == IF w = 0 THEN [members |-> {}, original_debts |-> EmptyGraph]
                    ELSE update({}, EmptyGraph, 1, 2, w)
              u2 == IF v = 0 THEN u1
                    ELSE update(u1.members, u1.original_debts, 2, 1, v)
          IN /\ members = u2.members
             /\ original_debts = u2.original_debts
             /\ optimized_debts =
                   optimized_payment_process(u2.members, u2.original_debts,
                                             EmptyGraph).optimized_debts
    /\ lastCall = [op |-> "init", a |-> 0, b |-> 0, amount |-> 0, result |-> "", iters |-> 0]
    /\ calls = 0
    /\ hub = InformationHub(0)
    /\ hubCall = NoHubCall
    /\ hubCalls = 0
    /\ _payment_system = <<>>
    /\ _info_hub = <<>>
    /\ ledgers = <<>>
    /\ hubs = <<>>
    /\ regCall = [op |-> "init", group |-> "", ref |-> 0, created |-> FALSE]
    /\ regCalls = 0
    /\ threads = <<>>
    /\ response = [user_input |-> <<>>, group |-> "", action_type |-> "",
                   handler |-> "", executed |-> FALSE]

UpdateNext ==
    /\ calls < MaxWideCalls
    /\ \E f \in WideCaller, t \in WideCaller, amt \in Amount : Update(f, t, amt)

\* update() calls on edges whose weight reaches 2^MantissaBits.
SpecUpdate == UpdateInit /\ [][UpdateNext]_vars

\* ===================================================== first-access creation
\* get_payment_system and get_info_hub called from several threads at once
\* (the endpoint of src/api.py is a plain def, which the server runs on a
\* thread pool).  Neither function takes a lock, so a thread can be preempted
\* between the membership test, the construction, the store and the final
\* read; each of these is one step here.
Thread == 1..NumThreads

Engine == {"payment", "info"}

\* abs(hash(group_id)) % 1000 of the groups explored
PrefixOf(g) == IF g = "g1" THEN 0 ELSE 1

\* _payment_system or _info_hub
RegistryOf(engine) == IF engine = "payment" THEN _payment_system ELSE _info_hub

\* A thread outside any call; refs holds the <<engine, group, instance>> the
\* thread's calls have returned so far, made those its calls have constructed.
IdleThread ==
    [pc |-> "idle", engine |-> "", group |-> "", tmp |-> 0, ref |-> 0,
     refs |-> {}, made |-> {}]

RaceInit ==
    /\ threads = [t \in Thread |-> IdleThread]
    /\ response = [user_input |-> <<>>, group |-> "", action_type |-> "",
                   handler |-> "", executed |-> FALSE]
    /\ _payment_system = <<>>
    /\ _info_hub = <<>>
    /\ ledgers = <<>>
    /\ hubs = <<>>
    /\ regCall = [op |-> "init", group |-> "", ref |-> 0, created |-> FALSE]
    /\ regCalls = 0
    /\ members = {}
    /\ original_debts = EmptyGraph
    /\ optimized_debts = EmptyGraph
    /\ lastCall = [op |-> "init", a |-> 0, b |-> 0, amount |-> 0, result |-> "", iters |-> 0]
    /\ calls = 0
    /\ hub = InformationHub(0)
    /\ hubCall = [op |-> "init", doc_id |-> 0, title |-> None, content |-> None,
                  result |-> "", id |-> 0, pool |-> {}]
    /\ hubCalls = 0

\* A thread enters get_payment_system(g) or get_info_hub(g).
RaceCall(t, engine, g) ==
    /\ threads[t].pc = "idle"
    /\ regCalls < MaxGroupCalls
    /\ threads' = [threads EXCEPT ![t].pc = "test", ![t].engine = engine,
                                  ![t].group = g, ![t].tmp = 0, ![t].ref = 0]
    /\ regCalls' = regCalls + 1
    /\ UNCHANGED <<_payment_system, _info_hub, ledgers, hubs, regCall, response>>
    /\ UNCHANGED <<ledgerVars, hubVars>>

\* if group_id not in _payment_system:
RaceTest(t) ==
    /\ threads[t].pc = "test"
    /\ threads' = [threads EXCEPT ![t].pc =
                      IF threads[t].group \in DOMAIN RegistryOf(threads[t].engine)
                      THEN "return" ELSE "construct"]
    /\ UNCHANGED <<registryVars, response>>
    /\ UNCHANGED <<ledgerVars, hubVars>>

\* FlexiblePaymentSystem(group_id) / InformationHub(group_id)
RaceConstruct(t) ==
    /\ threads[t].pc = "construct"
    /\ IF threads[t].engine = "payment"
       THEN /\ ledgers' = Append(ledgers, FlexiblePaymentSystem(threads[t].group))
            /\ threads' = [threads EXCEPT
                              ![t].pc = "store", ![t].tmp = Len(ledgers) + 1,
                              ![t].made = @ \cup {<<"payment", threads[t].group,
                                                    Len(ledgers) + 1>>}]
            /\ UNCHANGED hubs
       ELSE /\ hubs' = Append(hubs, InformationHub(PrefixOf(threads[t].group)))
            /\ threads' = [threads EXCEPT
                              ![t].pc = "store", ![t].tmp = Len(hubs) + 1,
                              ![t].made = @ \cup {<<"info", threads[t].group,
                                                    Len(hubs) + 1>>}]
            /\ UNCHANGED ledgers
    /\ UNCHANGED <<_payment_system, _info_hub, regCall, regCalls, response>>
    /\ UNCHANGED <<ledgerVars, hubVars>>

\* _payment_system[group_id] = <the new instance>
RaceStore(t) ==
    /\ threads[t].pc = "store"
    /\ IF threads[t].engine = "payment"
       THEN /\ _payment_system' = RegistryPut(_payment_system, threads[t].group, threads[t].tmp)
            /\ UNCHANGED _info_hub
       ELSE /\ _info_hub' = RegistryPut(_info_hub, threads[t].group, threads[t].tmp)
            /\ UNCHANGED _payment_system
    /\ threads' = [threads EXCEPT ![t].pc = "return"]
    /\ UNCHANGED <<ledgers, hubs, regCall, regCalls, response>>
    /\ UNCHANGED <<ledgerVars, hubVars>>

\* return _payment_system[group_id]
RaceReturn(t) ==
    /\ threads[t].pc = "return"
    /\ LET ref == RegistryOf(threads[t].engine)[threads[t].group]
       IN threads' = [threads EXCEPT
                         ![t].pc = "use", ![t].ref = ref,
                         ![t].refs = @ \cup {<<threads[t].engine, threads[t].group, ref>>}]
    /\ UNCHANGED <<registryVars, response>>
    /\ UNCHANGED <<ledgerVars, hubVars>>

\* The caller writes to the instance it was handed:
\* payment_sys.update(left, right, amount) / info_hub.add_document(title, content)
RaceUse(t, amt, title) ==
    /\ threads[t].pc = "use"
    /\ IF threads[t].engine = "payment"
       THEN /\ LET l == ledgers[threads[t].ref]
                   u == update(l.members, l.original_debts, 1, 2, amt)
               IN ledgers' = [ledgers EXCEPT ![threads[t].ref] =
                                 [@ EXCEPT !.members = u.members,
                                           !.original_debts = u.original_debts]]
            /\ UNCHANGED hubs
       ELSE /\ hubs' = [hubs EXCEPT ![threads[t].ref] = add_document(@, title, title, 0).hub]
            /\ UNCHANGED ledgers
    /\ threads' = [threads EXCEPT ![t].pc = "idle"]
    /\ UNCHANGED <<_payment_system, _info_hub, regCall, regCalls, response>>
    /\ UNCHANGED <<ledgerVars, hubVars>>

RaceNext ==
    \/ \E t \in Thread, engine \in Engine, g \in Group : RaceCall(t, engine, g)
    \/ \E t \in Thread : RaceTest(t)
    \/ \E t \in Thread : RaceConstruct(t)
    \/ \E t \in Thread : RaceStore(t)
    \/ \E t \in Thread : RaceReturn(t)
    \/ \E t \in Thread, amt \in 1..MaxAmount, title \in Texts : RaceUse(t, amt, title)

\* The registries used by NumThreads threads at once.
SpecRegistryRace == RaceInit /\ [][RaceNext]_vars

\* ======================================================= concurrent hub calls
\* The methods of one InformationHub called from several threads at once.  No
\* method takes a lock.  A call is a sequence of steps, each a block of lines
\* of the method that runs without interruption; a thread can be preempted
\* between two steps.  The schedules explored keep a slot's document object
\* in place while another thread holds it in its local `doc`.
RaceTexts == {<<"A">>, <<"b", " ", "a">>}

IdleHubThread ==
    [pc |-> "idle", op |-> "", doc_id |-> 0, title |-> None, content |-> None,
     id_val |-> 0, result |-> "", seen |-> {}]

HubRaceInit ==
    /\ \E prefix \in Prefixes : hub = InformationHub(prefix)
    /\ hubCall = [op |-> "init", doc_id |-> 0, title |-> None, content |-> None,
                  result |-> "", id |-> 0, pool |-> {}]
    /\ hubCalls = 0
    /\ threads = [t \in Thread |-> IdleHubThread]
    /\ response = [user_input |-> <<>>, group |-> "", action_type |-> "",
                   handler |-> "", executed |-> FALSE]
    /\ _payment_system = <<>>
    /\ _info_hub = <<>>
    /\ ledgers = <<>>
    /\ hubs = <<>>
    /\ regCall = [op |-> "init", group |-> "", ref |-> 0, created |-> FALSE]
    /\ regCalls = 0
    /\ members = {}
    /\ original_debts = EmptyGraph
    /\ optimized_debts = EmptyGraph
    /\ lastCall = [op |-> "init", a |-> 0, b |-> 0, amount |-> 0, result |-> "", iters |-> 0]
    /\ calls = 0

\* The threads other than t whose local `doc` is the object of slot doc_id.
HoldsDoc(t, doc_id) ==
    \E u \in Thread \ {t} :
        /\ threads[u].doc_id = doc_id
        /\ threads[u].op \in {"delete_document", "update_document"}
        /\ threads[u].pc \in {"mark", "unindex", "title", "content", "pool"}

\* A thread enters add_document, delete_document or update_document.
HubRaceCall(t, op, doc_id, title, content) ==
    /\ threads[t].pc = "idle"
    /\ hubCalls < MaxHubCalls
    /\ threads' = [threads EXCEPT ![t] =
                      [pc |-> IF op = "add_document" THEN "allocate" ELSE "check",
                       op |-> op, doc_id |-> doc_id, title |-> title,
                       content |-> content, id_val |-> 0, result |-> "", seen |-> {}]]
    /\ hubCalls' = hubCalls + 1
    /\ UNCHANGED <<hub, hubCall, response>>
    /\ UNCHANGED <<ledgerVars, registryVars>>

\* _allocate_id, lines 47-50: the pool is looked at and popped, or next_id read
HubRaceAllocate(t) ==
    /\ threads[t].pc = "allocate"
    /\ IF hub.deleted_ids # {}
       THEN \E pick \in hub.deleted_ids :
               /\ hub' = [hub EXCEPT !.deleted_ids = @ \ {pick}]
               /\ threads' = [threads EXCEPT ![t].pc = "store", ![t].doc_id = pick]
       ELSE /\ threads' = [threads EXCEPT ![t].pc = "bump", ![t].id_val = hub.next_id]
            /\ UNCHANGED hub
    /\ UNCHANGED <<hubCall, hubCalls, response>>
    /\ UNCHANGED <<ledgerVars, registryVars>>

\* _allocate_id, lines 51-54: next_id advanced, the limit tested
HubRaceBump(t) ==
    /\ threads[t].pc = "bump"
    /\ hub' = [hub EXCEPT !.next_id = @ + 1]
    /\ threads' = IF threads[t].id_val > SeqLimit
                  THEN [threads EXCEPT ![t].pc = "idle", ![t].result = "OverflowError"]
                  ELSE [threads EXCEPT ![t].pc = "store",
                                       ![t].doc_id = hub.group_prefix * IdBase
                                                     + threads[t].id_val]
    /\ UNCHANGED <<hubCall, hubCalls, response>>
    /\ UNCHANGED <<ledgerVars, registryVars>>

\* add_document, lines 61-65: the list padded and the document stored
HubRaceStore(t) ==
    /\ threads[t].pc = "store"
    /\ ~HoldsDoc(t, threads[t].doc_id)
    /\ hub' = [hub EXCEPT
                  !.doc_len = Max(@, threads[t].doc_id),
                  !.documents = SetDocument(@, threads[t].doc_id,
                                            Information(threads[t].title, threads[t].content,
                                                        threads[t].doc_id))]
    /\ threads' = [threads EXCEPT ![t].pc = "title"]
    /\ UNCHANGED <<hubCall, hubCalls, response>>
    /\ UNCHANGED <<ledgerVars, registryVars>>

\* delete_document, lines 83-88, and update_document, lines 212-217
HubRaceCheck(t) ==
    /\ threads[t].pc = "check"
    /\ threads' = IF threads[t].doc_id < 1 \/ ~ActiveSlot(hub, threads[t].doc_id)
                  THEN [threads EXCEPT ![t].pc = "idle", ![t].result = "False"]
                  ELSE [threads EXCEPT ![t].pc = IF threads[t].op = "delete_document"
                                                  THEN "mark" ELSE "unindex"]
    /\ UNCHANGED <<hub, hubCall, hubCalls, response>>
    /\ UNCHANGED <<ledgerVars, registryVars>>

\* delete_document, line 91: doc.deleted = True
HubRaceMark(t) ==
    /\ threads[t].pc = "mark"
    /\ hub' = [hub EXCEPT !.documents[threads[t].doc_id].deleted = TRUE]
    /\ threads' = [threads EXCEPT ![t].pc = "unindex"]
    /\ UNCHANGED <<hubCall, hubCalls, response>>
    /\ UNCHANGED <<ledgerVars, registryVars>>

\* delete_document, lines 94-127, and update_document, lines 220-244: the
\* postings of the document's words removed, its word sets dropped (reset)
HubRaceUnindex(t) ==
    /\ threads[t].pc = "unindex"
    /\ LET doc_id == threads[t].doc_id
       IN hub' = [hub EXCEPT
                     !.title_index = RemovePostings(@, WordsOf(hub.doc_title_words, doc_id), doc_id),
                     !.content_index = RemovePostings(@, WordsOf(hub.doc_content_words, doc_id), doc_id),
                     !.doc_title_words = IF threads[t].op = "delete_document"
                                         THEN DelWords(@, doc_id) ELSE SetWords(@, doc_id, {}),
                     !.doc_content_words = IF threads[t].op = "delete_document"
                                           THEN DelWords(@, doc_id) ELSE SetWords(@, doc_id, {})]
    /\ threads' = [threads EXCEPT ![t].pc = IF threads[t].op = "delete_document"
                                            THEN "pool" ELSE "title"]
    /\ UNCHANGED <<hubCall, hubCalls, response>>
    /\ UNCHANGED <<ledgerVars, registryVars>>

\* delete_document, lines 130-132: the id handed to the pool
HubRacePool(t) ==
    /\ threads[t].pc = "pool"
    /\ hub' = [hub EXCEPT !.deleted_ids = @ \cup {threads[t].doc_id}]
    /\ threads' = [threads EXCEPT ![t].pc = "idle", ![t].result = "True"]
    /\ UNCHANGED <<hubCall, hubCalls, response>>
    /\ UNCHANGED <<ledgerVars, registryVars>>

\* add_document, lines 68-71; update_document, lines 247-256 (the fields set,
\* then the title indexed)
HubRaceTitle(t) ==
    /\ threads[t].pc = "title"
    /\ LET doc_id == threads[t].doc_id
           doc == hub.documents[doc_id]
           new_title == IF threads[t].op = "update_document" /\ threads[t].title = None
                        THEN doc.title ELSE threads[t].title
           new_content == IF threads[t].op = "update_document" /\ threads[t].content = None
                          THEN doc.content ELSE threads[t].content
           documents1 == IF threads[t].op = "update_document"
                         THEN [hub.documents EXCEPT ![doc_id].title = new_title,
                                                    ![doc_id].content = new_content]
                         ELSE hub.documents
           title_words == _tokenize(IF threads[t].op = "update_document"
                                    THEN new_title ELSE threads[t].title)
       IN hub' = [hub EXCEPT
                     !.documents = documents1,
                     !.title_index = IndexWords(@, title_words, doc_id, 0),
                     !.doc_title_words =
                         IF title_words = <<>> THEN @
                         ELSE SetWords(@, doc_id, WordsOf(@, doc_id) \cup WordSet(title_words))]
    /\ threads' = [threads EXCEPT ![t].pc = "content"]
    /\ UNCHANGED <<hubCall, hubCalls, response>>
    /\ UNCHANGED <<ledgerVars, registryVars>>

\* add_document, lines 74-79; update_document, lines 258-263
HubRaceContent(t) ==
    /\ threads[t].pc = "content"
    /\ LET doc_id == threads[t].doc_id
           content_words == _tokenize(IF threads[t].op = "update_document"
                                      THEN hub.documents[doc_id].content
                                      ELSE threads[t].content)
       IN hub' = [hub EXCEPT
                     !.content_index = IndexWords(@, content_words, doc_id, 0),
                     !.doc_content_words =
                         IF content_words = <<>> THEN @
                         ELSE SetWords(@, doc_id, WordsOf(@, doc_id) \cup WordSet(content_words))]
    /\ threads' = [threads EXCEPT ![t].pc = "idle",
                                  ![t].result = IF threads[t].op = "update_document"
                                                THEN "True" ELSE "id"]
    /\ UNCHANGED <<hubCall, hubCalls, response>>
    /\ UNCHANGED <<ledgerVars, registryVars>>

\* search(keyword), run in one piece: seen holds the ids of the documents returned
HubRaceSearch(t, keyword) ==
    /\ threads[t].pc = "idle"
    /\ \E r \in search(hub, keyword) :
          threads' = [threads EXCEPT ![t] =
                         [IdleHubThread EXCEPT !.pc = "seen", !.op = "search",
                                               !.seen = {r[i].id : i \in 1..Len(r)}]]
    /\ UNCHANGED <<hub, hubCall, hubCalls, response>>
    /\ UNCHANGED <<ledgerVars, registryVars>>

\* get_document(doc_id), run in one piece
HubRaceGetDocument(t, doc_id) ==
    /\ threads[t].pc = "idle"
    /\ threads' = [threads EXCEPT ![t] =
                      [IdleHubThread EXCEPT !.pc = "seen", !.op = "get_document",
                                            !.doc_id = doc_id,
                                            !.seen = IF get_document(hub, doc_id) = NotFound
                                                     THEN {} ELSE {doc_id}]]
    /\ UNCHANGED <<hub, hubCall, hubCalls, response>>
    /\ UNCHANGED <<ledgerVars, registryVars>>

\* The reader is done with what it was handed.
HubRaceSeen(t) ==
    /\ threads[t].pc = "seen"
    /\ threads' = [threads EXCEPT ![t] = IdleHubThread]
    /\ UNCHANGED <<hub, hubCall, hubCalls, response>>
    /\ UNCHANGED <<ledgerVars, registryVars>>

\* The ids the concurrent calls are made with.
RaceIds == {hub.group_prefix * IdBase + k : k \in 1..SeqLimit}

HubRaceNext ==
    \/ \E t \in Thread, title \in RaceTexts, content \in RaceTexts :
          HubRaceCall(t, "add_document", 0, title, content)
    \/ \E t \in Thread, doc_id \in RaceIds :
          HubRaceCall(t, "delete_document", doc_id, None, None)
    \/ \E t \in Thread, doc_id \in RaceIds, title \in RaceTexts \cup {None} :
          \E content \in RaceTexts \cup {None} :
             HubRaceCall(t, "update_document", doc_id, title, content)
    \/ \E t \in Thread : HubRaceAllocate(t)
    \/ \E t \in Thread : HubRaceBump(t)
    \/ \E t \in Thread : HubRaceStore(t)
    \/ \E t \in Thread : HubRaceCheck(t)
    \/ \E t \in Thread : HubRaceMark(t)
    \/ \E t \in Thread : HubRaceUnindex(t)
    \/ \E t \in Thread : HubRacePool(t)
    \/ \E t \in Thread : HubRaceTitle(t)
    \/ \E t \in Thread : HubRaceContent(t)
    \/ \E t \in Thread, keyword \in RaceTexts : HubRaceSearch(t, keyword)
    \/ \E t \in Thread, doc_id \in RaceIds : HubRaceGetDocument(t, doc_id)
    \/ \E t \in Thread : HubRaceSeen(t)

\* One hub used by NumThreads threads at once.
SpecHubRace == HubRaceInit /\ [][HubRaceNext]_vars

\* ==================================================== concurrent ledger calls
\* The methods of one FlexiblePaymentSystem called from several threads at
\* once, as concurrent requests do through MoneyTransactionHandler.execute
\* (update, then optimized_payment_process) and PaymentStatusHandler.execute
\* (optimized_payment_process).  No method takes a lock; a thread can be
\* preempted between two steps, each a block of lines of the method.
IdleLedgerThread ==
    [pc |-> "idle", op |-> "", from_member |-> 0, to_member |-> 0, amount |-> 0,
     debtors |-> {}, creditors |-> {}, sent |-> <<>>]

LedgerRaceInit ==
    /\ members = {}
    /\ original_debts = EmptyGraph
    /\ optimized_debts = EmptyGraph
    /\ lastCall = [op |-> "init", a |-> 0, b |-> 0, amount |-> 0, result |-> "", iters |-> 0]
    /\ calls = 0
    /\ threads = [t \in Thread |-> IdleLedgerThread]
    /\ response = [user_input |-> <<>>, group |-> "", action_type |-> "",
                   handler |-> "", executed |-> FALSE]
    /\ hub = InformationHub(0)
    /\ hubCall = [op |-> "init", doc_id |-> 0, title |-> None, content |-> None,
                  result |-> "", id |-> 0, pool |-> {}]
    /\ hubCalls = 0
    /\ _payment_system = <<>>
    /\ _info_hub = <<>>
    /\ ledgers = <<>>
    /\ hubs = <<>>
    /\ regCall = [op |-> "init", group |-> "", ref |-> 0, created |-> FALSE]
    /\ regCalls = 0

\* handler.py:52: payment_sys.update(left, right, final_amount), the first
\* engine call of a money transaction; sent lists the updates the thread has made.
LedgerRaceTransaction(t, f, to, amt) ==
    /\ threads[t].pc = "idle"
    /\ calls < MaxCalls
    /\ threads' = [threads EXCEPT ![t].pc = "update", ![t].op = "transaction",
                                  ![t].from_member = f, ![t].to_member = to,
                                  ![t].amount = amt,
                                  ![t].sent = Append(@, <<f, to, amt>>)]
    /\ calls' = calls + 1
    /\ UNCHANGED <<members, original_debts, optimized_debts, lastCall, response>>
    /\ UNCHANGED <<hubVars, registryVars>>

\* handler.py:82: payment_sys.optimized_payment_process() of a status request
LedgerRaceStatus(t) ==
    /\ threads[t].pc = "idle"
    /\ calls < MaxCalls
    /\ threads' = [threads EXCEPT ![t].pc = "balances", ![t].op = "status"]
    /\ calls' = calls + 1
    /\ UNCHANGED <<members, original_debts, optimized_debts, lastCall, response>>
    /\ UNCHANGED <<hubVars, registryVars>>

\* update, lines 53-58; then handler.py:55 enters optimized_payment_process
LedgerRaceUpdate(t) ==
    /\ threads[t].pc = "update"
    /\ LET r == update(members, original_debts, threads[t].from_member,
                       threads[t].to_member, threads[t].amount)
       IN /\ members' = r.members
          /\ original_debts' = r.original_debts
    /\ threads' = [threads EXCEPT ![t].pc = "balances"]
    /\ UNCHANGED <<optimized_debts, lastCall, calls, response>>
    /\ UNCHANGED <<hubVars, registryVars>>

\* optimized_payment_process, lines 73-89: the balances read and the two
\* heaps filled (locals of the call)
LedgerRaceBalances(t) ==
    /\ threads[t].pc = "balances"
    /\ threads' =
          IF members = {}
          THEN [threads EXCEPT ![t].pc = "idle"]
          ELSE [threads EXCEPT
                   ![t].pc = "clear",
                   ![t].debtors = {<<_get_net_balance(members, m, original_debts), m>> :
                                      m \in Debtors(members, original_debts)},
                   ![t].creditors = {<<-_get_net_balance(members, m, original_debts), m>> :
                                        m \in Creditors(members, original_debts)}]
    /\ UNCHANGED <<members, original_debts, optimized_debts, lastCall, calls, response>>
    /\ UNCHANGED <<hubVars, registryVars>>

\* optimized_payment_process, line 92: self.optimized_debts.clear()
LedgerRaceClear(t) ==
    /\ threads[t].pc = "clear"
    /\ optimized_debts' = EmptyGraph
    /\ threads' = [threads EXCEPT ![t].pc = "settle"]
    /\ UNCHANGED <<members, original_debts, lastCall, calls, response>>
    /\ UNCHANGED <<hubVars, registryVars>>

\* optimized_payment_process, lines 95-118: one iteration of the loop, or the
\* return once a heap is empty
LedgerRaceSettle(t) ==
    /\ threads[t].pc = "settle"
    /\ IF threads[t].debtors = {} \/ threads[t].creditors = {}
       THEN /\ threads' = [threads EXCEPT ![t].pc = "idle", ![t].debtors = {},
                                          ![t].creditors = {}]
            /\ UNCHANGED optimized_debts
       ELSE LET d == HeapMin(threads[t].debtors)
                c == HeapMin(threads[t].creditors)
                debtor == d[2]
                creditor == c[2]
                debt_amt == -d[1]
                credit_amt == -c[1]
                settlement == Min(debt_amt, credit_amt)
            IN /\ optimized_debts' =
                     [optimized_debts EXCEPT ![debtor] = DictPut(@, creditor, settlement)]
               /\ threads' =
                     [threads EXCEPT
                         ![t].debtors = (@ \ {d}) \cup
                             (IF debt_amt - settlement > 0
                              THEN {<<-(debt_amt - settlement), debtor>>} ELSE {}),
                         ![t].creditors = (@ \ {c}) \cup
                             (IF credit_amt - settlement > 0
                              THEN {<<-(credit_amt - settlement), creditor>>} ELSE {})]
    /\ UNCHANGED <<members, original_debts, lastCall, calls, response>>
    /\ UNCHANGED <<hubVars, registryVars>>

LedgerRaceNext ==
    \/ \E t \in Thread, f \in Caller, amt \in 1..MaxAmount :
          \E to \in Caller \ {f} : LedgerRaceTransaction(t, f, to, amt)
    \/ \E t \in Thread : LedgerRaceStatus(t)
    \/ \E t \in Thread : LedgerRaceUpdate(t)
    \/ \E t \in Thread : LedgerRaceBalances(t)
    \/ \E t \in Thread : LedgerRaceClear(t)
    \/ \E t \in Thread : LedgerRaceSettle(t)

\* One ledger used by NumThreads threads at once.
SpecLedgerRace == LedgerRaceInit /\ [][LedgerRaceNext]_vars

\* ====================================================== process_chat_command
\* A user input is the sequence of its words, the leading '/' of a command a
\* word of its own; the command words are written without their diacritics
\* ("tien" for tiền, "no" for nợ).
REGISTERED_HANDLERS ==
    <<"MoneyTransactionHandler", "PaymentStatusHandler", "InfoAddHandler", "InfoFindHandler">>

\* COMMAND_PREFIX of each handler class
COMMAND_PREFIX(handler) ==
    CASE handler = "MoneyTransactionHandler" -> <<"/", "tien">>
      [] handler = "PaymentStatusHandler" -> <<"/", "trang-thai-tien">>
      [] handler = "InfoAddHandler" -> <<"/", "them-thong-tin">>
      [] OTHER -> <<"/", "tim-thong-tin">>

\* REGEX_PATTERN of each handler class, matched against the input:
\*   ^/tiền\s+(?P<person_a>\w+)\s+(?P<raw_details>.+)
\*   ^/trạng-thái-tiền
\*   ^/thêm-thông-tin\s+(?P<title>.+?)\s*\|\s*(?P<content>.+)
\*   ^/tìm-thông-tin\s+(?P<search_query>.+)
REGEX_PATTERN(handler, user_input) ==
    /\ Len(user_input) >= 2
    /\ SubSeq(user_input, 1, 2) = COMMAND_PREFIX(handler)
    /\ CASE handler = "MoneyTransactionHandler" -> Len(user_input) >= 4
         [] handler = "PaymentStatusHandler" -> TRUE
         [] handler = "InfoAddHandler" ->
               \E k \in 4..(Len(user_input) - 1) : user_input[k] = "|"
         [] OTHER -> Len(user_input) >= 3

\* The methods a handler object has: those of its class and of the bases
\* PaymentBaseHandler and BaseCommandHandler.
Methods(handler) ==
    IF handler \in {"MoneyTransactionHandler", "PaymentStatusHandler"}
    THEN {"execute", "_parse_amount", "_parse_debt_content"}
    ELSE {"execute"}

\* user_input.startswith('/')
StartsWithSlash(user_input) == user_input # <<>> /\ user_input[1] = "/"

Response(user_input, group_id, action_type, handler, executed) ==
    [user_input |-> user_input, group |-> group_id, action_type |-> action_type,
     handler |-> handler, executed |-> executed]

\* The loop over REGISTERED_HANDLERS from the i-th handler on.  The lookup
\* of handler.match_and_parse raises AttributeError when the handler has no
\* such method, which the except clause turns into an ERROR response.
RECURSIVE TryHandlers(_, _, _)
TryHandlers(user_input, group_id, i) ==
    IF i > Len(REGISTERED_HANDLERS)
    THEN Response(user_input, group_id, "ERROR", "", FALSE)
    ELSE LET handler == REGISTERED_HANDLERS[i]
         IN IF "match_and_parse" \notin Methods(handler)
            THEN Response(user_input, group_id, "ERROR", handler, FALSE)
            ELSE IF REGEX_PATTERN(handler, user_input)
            THEN Response(user_input, group_id, "handler", handler, TRUE)
            ELSE TryHandlers(user_input, group_id, i + 1)

process_chat_command(user_input, group_id) ==
    IF ~StartsWithSlash(user_input)
    THEN Response(user_input, group_id, "FALLBACK", "", FALSE)
    ELSE TryHandlers(user_input, group_id, 1)

UserInputs ==
    {<<>>, <<"hello">>, <<"tien", "A", "no", "B", "5">>,
     <<"/", "tien", "A", "no", "B", "5">>, <<"/", "tien">>,
     <<"/", "trang-thai-tien">>,
     <<"/", "them-thong-tin", "t", "|", "c">>, <<"/", "them-thong-tin", "t">>,
     <<"/", "tim-thong-tin", "t">>, <<"/", "xyz", "1">>}

\* process_chat_command(user_input, g).  No response of the function comes
\* from a handler's execute (no handler has match_and_parse), so no engine
\* is looked up or written.
ProcessChatCommand(user_input, g) ==
    /\ regCalls < MaxGroupCalls
    /\ LET r == process_chat_command(user_input, g)
       IN /\ ~r.executed
          /\ response' = r
    /\ regCall' = [op |-> "process_chat_command", group |-> g, ref |-> 0, created |-> FALSE]
    /\ regCalls' = regCalls + 1
    /\ UNCHANGED <<_payment_system, _info_hub, ledgers, hubs, threads>>
    /\ UNCHANGED <<ledgerVars, hubVars>>

ProcessorNext ==
    \/ \E user_input \in UserInputs, g \in Group : ProcessChatCommand(user_input, g)
    \/ \E g \in Group, f \in WideCaller, amt \in 1..MaxAmount :
          \E t \in WideCaller \ {f} : GroupUpdate(g, f, t, amt)
    \/ \E g \in Group, title \in Texts : GroupAddDocument(g, title, title)

\* Commands sent to the processor, the engines also used directly.
SpecProcessor == RegistryInit /\ [][ProcessorNext]_vars

\* ============================================================ ledger claims
Net(m) == _get_net_balance(members, m, original_debts)

NumEntries(g) == Cardinality(Edges(g))

C4_RemoveNonzeroFails ==
    [][(/\ calls' = calls + 1
        /\ lastCall'.op = "remove_member"
        /\ lastCall'.a \in members
        /\ Net(lastCall'.a) # 0)
       => /\ lastCall'.result = "ValueError"
          /\ UNCHANGED <<members, original_debts, optimized_debts>>]_vars

C4_Witness ==
    /\ lastCall.op = "remove_member"
    /\ lastCall.result = "ValueError"
    /\ lastCall.a \in members
    /\ Net(lastCall.a) # 0

\* C5: after a successful remove_member(m), m is no member and neither graph
\* holds a (nonzero) entry with m as debtor or as creditor.
Incident(g, m) == {e \in Edges(g) : (e[1] = m \/ e[2] = m) /\ e[3] # 0}

C5_RemoveClearsBothSides ==
    (lastCall.op = "remove_member" /\ lastCall.result = "True") =>
        /\ lastCall.a \notin members
        /\ Incident(original_debts, lastCall.a) = {}
        /\ Incident(optimized_debts, lastCall.a) = {}

\* C6: a remove_member or force_remove_member call that does not return True
\* leaves members and both graphs as they were.
C6_FailedRemovalAtomic ==
    [][(/\ calls' = calls + 1
        /\ lastCall'.op \in {"remove_member", "force_remove_member"}
        /\ lastCall'.result # "True")
       => /\ members' = members
          /\ Edges(original_debts') = Edges(original_debts)
          /\ Edges(optimized_debts') = Edges(optimized_debts)]_vars

\* C7: force_remove_member(m, settle_first = True) on a known member with
\* nonzero net balance, another member existing, returns True and m is no
\* longer a member.
C7_ForceRemoveSucceeds ==
    [][(/\ calls' = calls + 1
        /\ lastCall'.op = "force_remove_member"
        /\ lastCall'.b = 1
        /\ lastCall'.a \in members
        /\ Net(lastCall'.a) # 0
        /\ members \ {lastCall'.a} # {})
       => /\ lastCall'.result = "True"
          /\ lastCall'.a \notin members']_vars

\* ------------------------------------------------------------- SpecSettle
\* The settlement applied to the ledgers left by update(m, 1, a[m]) for each
\* member m > 1, a[m] drawn from -MaxBalance..MaxBalance: every balanced
\* vector of net balances with those magnitudes for the members m > 1.
StarGraph(a) == [m \in Member |-> IF m = 1 THEN <<>> ELSE <<<<1, a[m]>>>>]

SettleInit ==
    /\ members = Member
    /\ \E a \in [Member \ {1} -> (-MaxBalance)..MaxBalance] :
          original_debts = StarGraph(a)
    /\ optimized_debts = EmptyGraph
    /\ lastCall = NoCall
    /\ calls = 0
    /\ hub = InformationHub(0)
    /\ hubCall = NoHubCall
    /\ hubCalls = 0
    /\ _payment_system = <<>>
    /\ _info_hub = <<>>
    /\ ledgers = <<>>
    /\ hubs = <<>>
    /\ regCall = [op |-> "init", group |-> "", ref |-> 0, created |-> FALSE]
    /\ regCalls = 0
    /\ threads = <<>>
    /\ response = [user_input |-> <<>>, group |-> "", action_type |-> "",
                   handler |-> "", executed |-> FALSE]

\* The settlement is applied once to each of these ledgers.
SettleNext == lastCall.op = "init" /\ OptimizedPaymentProcess

SpecSettle == SettleInit /\ [][SettleNext]_vars

\* Every way of paying the net balances `bal` off with debtor-to-creditor
\* payments: a plan gives each (debtor, creditor) pair an amount >= 0 (0: no
\* payment), no more than the debtor owes or the creditor is owed.
RECURSIVE Plans(_, _)
Plans(pairs, bal) ==
    IF pairs = {} THEN {<<>>}
    ELSE LET p == CHOOSE q \in pairs : TRUE
         IN {f @@ (p :> x) : f \in Plans(pairs \ {p}, bal),
                             x \in 0..Min(-bal[p[1]], bal[p[2]])}

PlanSettles(f, D, C, bal) ==
    /\ \A d \in D : SumSet(C, [c \in C |-> f[<<d, c>>]]) = -bal[d]
    /\ \A c \in C : SumSet(D, [d \in D |-> f[<<d, c>>]]) = bal[c]

PlanEntries(f) == Cardinality({p \in DOMAIN f : f[p] > 0})

NoSmallerPlan ==
    LET bal == [m \in members |-> Net(m)]
        D == {m \in members : bal[m] < 0}
        C == {m \in members : bal[m] > 0}
        n == NumEntries(optimized_debts)
    IN \A f \in Plans(D \X C, bal) :
          PlanSettles(f, D, C, bal) => PlanEntries(f) >= n

\* C2 as stated: no set of debtor-to-creditor payments that reproduces the
\* net balances has fewer entries than the greedy result.
C2_GreedyIsMinimal ==
    lastCall.op = "optimized_payment_process" => NoSmallerPlan

\* C2 amended: the greedy result has the fewest entries possible whenever at
\* most four members have a nonzero net balance.
C2_GreedyMinimalUpToFour ==
    (/\ lastCall.op = "optimized_payment_process"
     /\ Cardinality(Debtors(members, original_debts))
        + Cardinality(Creditors(members, original_debts)) <= 4)
    => NoSmallerPlan

\* Two debtors and two creditors with no exact pairing: three payments.
C2_Witness ==
    /\ lastCall.op = "optimized_payment_process"
    /\ Cardinality(Debtors(members, original_debts)) = 2
    /\ Cardinality(Creditors(members, original_debts)) = 2
    /\ NumEntries(optimized_debts) = 3

\* =============================================================== hub claims
Tombstoned(h) == {d \in DOMAIN h.documents : h.documents[d].deleted}

ActiveIds(h) == {d \in DOMAIN h.documents : d >= 1 /\ ActiveSlot(h, d)}

ResultIds(res) == {res[i].id : i \in 1..Len(res)}

\* C8: no list search can return holds a tombstoned document; each returned
\* document is active and is the one stored under its id.
C8_SearchSkipsTombstones ==
    \A q \in Queries : \A res \in search(hub, q) : \A i \in 1..Len(res) :
        /\ ~res[i].deleted
        /\ res[i].id \in ActiveIds(hub)
        /\ hub.documents[res[i].id] = res[i]

\* A query finds an active document while a tombstoned one holds its token.
C8_Witness ==
    \E q \in Queries : \E res \in search(hub, q) :
        /\ Len(res) > 0
        /\ \E d \in Tombstoned(hub) :
              _tokenize(q)[1] \in WordSet(_tokenize(hub.documents[d].title))
                                  \cup WordSet(_tokenize(hub.documents[d].content))

\* C9: once delete_document(id) has succeeded the id is tombstoned; while it
\* is, get_document(id) is not-found and update_document(id) and
\* delete_document(id) return False; it stops being tombstoned only by an
\* add_document that returns it, after which get_document(id) is the new
\* document and no token that occurred only in the deleted one finds it.
DocTokens(doc) == WordSet(_tokenize(doc.title)) \cup WordSet(_tokenize(doc.content))

C9_DeletedUntilReused ==
    [][/\ (hubCall'.op = "delete_document" /\ hubCall'.result = "True"
           /\ hubCalls' = hubCalls + 1)
          => hubCall'.doc_id \in Tombstoned(hub')
       /\ \A id \in Tombstoned(hub') :
             /\ get_document(hub', id) = NotFound
             /\ delete_document(hub', id).result = "False"
             /\ \A t \in Texts \cup {None}, c \in Texts \cup {None} :
                   update_document(hub', id, t, c).result = "False"
       /\ \A id \in Tombstoned(hub) \ Tombstoned(hub') :
             /\ hubCall'.op = "add_document"
             /\ hubCall'.id = id
             /\ get_document(hub', id) = Information(hubCall'.title, hubCall'.content, id)
             /\ \A q \in Queries :
                   (/\ _tokenize(q) # <<>>
                    /\ _tokenize(q)[1] \in DocTokens(hub.documents[id])
                    /\ _tokenize(q)[1] \notin DocTokens(hub'.documents[id]))
                   => \A res \in search(hub', q) : id \notin ResultIds(res)]_vars

\* An add_document has reused the id of a deleted document that held a token
\* the new document does not hold.
C9_Witness ==
    /\ hubCall.op = "add_document"
    /\ hubCall.result = "id"
    /\ hub.next_id = 2
    /\ hubCalls = 3
    /\ DocTokens(hub.documents[hubCall.id]) = {<<"a">>}

\* C10: after a successful add_document(t, c) returning id, get_document(id)
\* is the document (t, c, id, deleted = false); id was the id of no active
\* document, and every document that was active still is, unchanged.
C10_AddThenGet ==
    [][(/\ hubCalls' = hubCalls + 1
        /\ hubCall'.op = "add_document"
        /\ hubCall'.result = "id")
       => /\ get_document(hub', hubCall'.id)
               = [title |-> hubCall'.title, content |-> hubCall'.content,
                  id |-> hubCall'.id, deleted |-> FALSE]
          /\ hubCall'.id \notin ActiveIds(hub)
          /\ \A d \in ActiveIds(hub) :
                get_document(hub', d) = get_document(hub, d)]_vars

\* A document added while another one is active.
C10_Witness ==
    /\ hubCall.op = "add_document"
    /\ hubCall.result = "id"
    /\ Cardinality(ActiveIds(hub)) = 2
    /\ get_document(hub, hubCall.id).title = hubCall.title

\* C11: search(q) returns exactly the active documents that hold the first
\* token of q (lower-cased) in their title or content, each once and as it
\* is stored, whatever tokens follow the first; a query without a token
\* returns the empty list.
HoldsToken(doc, token) == token \in DocTokens(doc)

C11_SearchFirstToken ==
    \A q \in Queries :
        LET keywords == _tokenize(q)
        IN IF keywords = <<>>
           THEN search(hub, q) = {<<>>}
           ELSE LET holders == {d \in ActiveIds(hub) :
                                   HoldsToken(hub.documents[d], keywords[1])}
                IN \A res \in search(hub, q) :
                      /\ ResultIds(res) = holders
                      /\ Len(res) = Cardinality(holders)
                      /\ \A i \in 1..Len(res) : res[i] = hub.documents[res[i].id]

\* A query of two tokens finds a document while an active document holds its
\* second token and not its first.
C11_Witness ==
    \E q \in Queries :
        LET keywords == _tokenize(q)
        IN /\ Len(keywords) >= 2
           /\ \E res \in search(hub, q) : Len(res) >= 1
           /\ \E d \in ActiveIds(hub) :
                 /\ HoldsToken(hub.documents[d], keywords[2])
                 /\ ~HoldsToken(hub.documents[d], keywords[1])

\* C12: in every list search can return, the documents whose title holds the
\* searched token come before the documents that hold it in content only.
C12_TitleMatchesFirst ==
    \A q \in Queries : \A res \in search(hub, q) : \A i, j \in 1..Len(res) :
        LET token == _tokenize(q)[1]
            InTitle(doc) == token \in WordSet(_tokenize(doc.title))
        IN (InTitle(res[i]) /\ ~InTitle(res[j])) => i < j

\* A result lists a title match stored under a greater id than a content-only
\* match of the same result.
C12_Witness ==
    \E q \in Queries : \E res \in search(hub, q) : \E i, j \in 1..Len(res) :
        LET token == _tokenize(q)[1]
        IN /\ token \in WordSet(_tokenize(res[i].title))
           /\ token \notin WordSet(_tokenize(res[j].title))
           /\ res[i].id > res[j].id

\* C13: for both indexes and every token, the posting list is strictly
\* increasing by (doc_id, position) and holds exactly the (doc_id, position)
\* pairs at which the token occurs in that field of the active documents; no
\* token is kept with an empty list, so no posting names a tombstoned or
\* unallocated id.
FieldPostings(h, field, token) ==
    UNION {{<<d, i - 1>> : i \in {k \in 1..Len(_tokenize(h.documents[d][field])) :
                                    _tokenize(h.documents[d][field])[k] = token}} :
           d \in ActiveIds(h)}

FieldTokens(h, field) ==
    UNION {WordSet(_tokenize(h.documents[d][field])) : d \in ActiveIds(h)}

IndexMatches(h, index, field) ==
    /\ DOMAIN index = FieldTokens(h, field)
    /\ \A token \in DOMAIN index :
          LET entries == index[token]
          IN /\ entries # <<>>
             /\ \A i \in 1..(Len(entries) - 1) : PostingLess(entries[i], entries[i + 1])
             /\ {entries[i] : i \in 1..Len(entries)} = FieldPostings(h, field, token)
             /\ \A i \in 1..Len(entries) :
                   /\ entries[i][1] \notin Tombstoned(h)
                   /\ entries[i][1] \in ActiveIds(h)

C13_IndexInvariant ==
    /\ IndexMatches(hub, hub.title_index, "title")
    /\ IndexMatches(hub, hub.content_index, "content")

\* An update_document has re-indexed a document whose postings stand before
\* those of a document with a greater id in the same list.
C13_Witness ==
    /\ hubCall.op = "update_document"
    /\ hubCall.result = "True"
    /\ \E token \in DOMAIN hub.title_index :
          LET entries == hub.title_index[token]
          IN \E i \in 1..(Len(entries) - 1) :
                /\ entries[i][1] = hubCall.doc_id
                /\ entries[i + 1][1] > hubCall.doc_id

\* C14: an add_document that finds the reuse pool non-empty returns an id of
\* the pool, takes it out of the pool and leaves next_id alone; one that finds
\* the pool empty and succeeds returns group_prefix * 1000 + next_id with
\* next_id within 1..SeqLimit (the 999 of the code), and advances next_id by one.
C14_ReusePreferred ==
    [][(hubCalls' = hubCalls + 1 /\ hubCall'.op = "add_document")
       => IF hub.deleted_ids # {}
          THEN /\ hubCall'.result = "id"
               /\ hubCall'.id \in hub.deleted_ids
               /\ hub'.deleted_ids = hub.deleted_ids \ {hubCall'.id}
               /\ hub'.next_id = hub.next_id
          ELSE hubCall'.result = "id"
               => /\ hubCall'.id = hub.group_prefix * IdBase + hub.next_id
                  /\ hub.next_id \in 1..SeqLimit
                  /\ hub'.next_id = hub.next_id + 1
                  /\ hub'.deleted_ids = {}]_vars

\* An add_document found an id in the pool while sequence numbers were left,
\* and returned the pooled id.
C14_Witness ==
    /\ hubCall.op = "add_document"
    /\ hubCall.result = "id"
    /\ hubCall.pool # {}
    /\ hubCall.id \in hubCall.pool
    /\ hub.next_id <= SeqLimit

\* C15: a hub never holds more than SeqLimit (the 999 of the code) active
\* documents; add_document raises OverflowError exactly when it finds the pool
\* empty and next_id beyond SeqLimit, every sequence number being minted then;
\* once an add_document has failed (next_id is beyond SeqLimit + 1), the
\* add_document that follows a successful delete_document succeeds.
AllMinted(h) ==
    \A k \in 1..SeqLimit : (h.group_prefix * IdBase + k) \in DOMAIN h.documents

C15_Capacity ==
    /\ [](Cardinality(ActiveIds(hub)) <= SeqLimit)
    /\ [][(hubCalls' = hubCalls + 1 /\ hubCall'.op = "add_document")
          => /\ hubCall'.result = "OverflowError"
                  <=> (hub.deleted_ids = {} /\ hub.next_id > SeqLimit)
             /\ hubCall'.result = "OverflowError" => AllMinted(hub)
             /\ (/\ hub.next_id > SeqLimit + 1
                 /\ hubCall.op = "delete_document"
                 /\ hubCall.result = "True")
                => hubCall'.result = "id"]_vars

\* An add_document has succeeded after a failed add_document and a
\* successful delete_document.
C15_Witness ==
    /\ hubCall.op = "add_document"
    /\ hubCall.result = "id"
    /\ hubCall.pool # {}
    /\ hub.next_id > SeqLimit + 1
    /\ Cardinality(ActiveIds(hub)) = SeqLimit

\* C16: delete_document and update_document return False exactly when the id
\* is below 1, beyond the document list, unallocated or tombstoned; every
\* failing call (those returning False, and an add_document raising
\* OverflowError) leaves the hub as it was: documents, indexes, word sets,
\* reuse pool and next_id.
C16_FailedMutationAtomic ==
    [][(hubCalls' = hubCalls + 1)
       => /\ hubCall'.op \in {"delete_document", "update_document"}
             => (hubCall'.result = "False" <=> hubCall'.doc_id \notin ActiveIds(hub))
          /\ hubCall'.result \in {"False", "OverflowError"} => hub' = hub]_vars

\* C17: a successful update_document(id, title, content) stores the given
\* title and content, an omitted one keeping its value; the document stays
\* active under id; in both indexes the postings of id are those of the new
\* field and the postings of the other documents are as before, in the same
\* order; the other documents, the reuse pool and next_id do not change.
PostingsOf(index, token, doc_id) ==
    SelectSeq(IndexGet(index, token), LAMBDA e : e[1] = doc_id)

PostingsOfOthers(index, token, doc_id) ==
    SelectSeq(IndexGet(index, token), LAMBDA e : e[1] # doc_id)

Occurrences(text, token, doc_id) ==
    {<<doc_id, i - 1>> : i \in {k \in 1..Len(_tokenize(text)) : _tokenize(text)[k] = token}}

Reindexed(old_index, new_index, text, doc_id) ==
    \A token \in DOMAIN old_index \cup DOMAIN new_index \cup WordSet(_tokenize(text)) :
        /\ PostingsOfOthers(new_index, token, doc_id)
             = PostingsOfOthers(old_index, token, doc_id)
        /\ LET entries == PostingsOf(new_index, token, doc_id)
           IN /\ {entries[i] : i \in 1..Len(entries)} = Occurrences(text, token, doc_id)
              /\ Len(entries) = Cardinality(Occurrences(text, token, doc_id))

C17_UpdateFrame ==
    [][(/\ hubCalls' = hubCalls + 1
        /\ hubCall'.op = "update_document"
        /\ hubCall'.result = "True")
       => LET id == hubCall'.doc_id
              old == hub.documents[id]
              new == hub'.documents[id]
          IN /\ id \in ActiveIds(hub) /\ id \in ActiveIds(hub')
             /\ new.id = id
             /\ new.title = IF hubCall'.title = None THEN old.title ELSE hubCall'.title
             /\ new.content = IF hubCall'.content = None THEN old.content
                               ELSE hubCall'.content
             /\ Reindexed(hub.title_index, hub'.title_index, new.title, id)
             /\ Reindexed(hub.content_index, hub'.content_index, new.content, id)
             /\ DOMAIN hub'.documents = DOMAIN hub.documents
             /\ \A d \in DOMAIN hub.documents \ {id} : hub'.documents[d] = hub.documents[d]
             /\ hub'.doc_len = hub.doc_len
             /\ hub'.deleted_ids = hub.deleted_ids
             /\ hub'.next_id = hub.next_id]_vars

\* An update_document gave a new title and no content to a document that
\* shares a token with another active document.
C17_Witness ==
    /\ hubCall.op = "update_document"
    /\ hubCall.result = "True"
    /\ hubCall.title # None
    /\ hubCall.content = None
    /\ hub.documents[hubCall.doc_id].title = hubCall.title
    /\ hub.documents[hubCall.doc_id].content # hubCall.title
    /\ \E d \in ActiveIds(hub) \ {hubCall.doc_id} :
          DocTokens(hub.documents[d]) \cap DocTokens(hub.documents[hubCall.doc_id]) # {}

\* ------------------------------------------------------------------------
\* C18 as stated: update(from, to, amount) makes from and to members, sets
\* the weight of (from, to) to its old weight (0 when absent) plus amount,
\* and leaves every other entry of original_debts, the reverse one included,
\* and optimized_debts as they were; update(f, t, a) then update(f, t, b)
\* leave the state that update(f, t, a + b) leaves.
Weight(g, x, y) == DictGet(g[x], y, 0)

UpdateStepFrame ==
    (calls' = calls + 1 /\ lastCall'.op = "update")
    => LET f == lastCall'.a
           t == lastCall'.b
       IN /\ members' = members \cup {f, t}
          /\ Weight(original_debts', f, t)
               = FloatAdd(Weight(original_debts, f, t), lastCall'.amount)
          /\ \A x \in Member, y \in Member :
                <<x, y>> # <<f, t>>
                => /\ Weight(original_debts', x, y) = Weight(original_debts, x, y)
                   /\ DictHas(original_debts'[x], y) <=> DictHas(original_debts[x], y)
          /\ optimized_debts' = optimized_debts

TwoUpdatesAsOne(f, t, a, b) ==
    LET first == update(members, original_debts, f, t, a)
    IN update(first.members, first.original_debts, f, t, b)
         = update(members, original_debts, f, t, a + b)

C18_UpdateAdds ==
    /\ [][UpdateStepFrame]_vars
    /\ [](\A f \in WideCaller, t \in WideCaller, a \in Amount, b \in Amount :
             TwoUpdatesAsOne(f, t, a, b))

\* C18 amended: the same, the two updates leaving the state of the single one
\* when the edge is absent or zero before them, or when the magnitudes of
\* its weight, a and b together stay below 2^MantissaBits (no sum is rounded).
NoRounding(w, a, b) == w = 0 \/ Abs(w) + Abs(a) + Abs(b) < Pow2(MantissaBits)

C18_UpdateAddsUnrounded ==
    /\ [][UpdateStepFrame]_vars
    /\ [](\A f \in WideCaller, t \in WideCaller, a \in Amount, b \in Amount :
             NoRounding(Weight(original_debts, f, t), a, b) => TwoUpdatesAsOne(f, t, a, b))

\* An update has added to an edge that had a weight, its reverse edge and
\* optimized_debts holding entries, and two further updates fit without rounding.
C18_Witness ==
    /\ lastCall.op = "update"
    /\ lastCall.a # lastCall.b
    /\ Weight(original_debts, lastCall.a, lastCall.b) # lastCall.amount
    /\ Weight(original_debts, lastCall.a, lastCall.b) # 0
    /\ Weight(original_debts, lastCall.b, lastCall.a) # 0
    /\ NumEntries(optimized_debts) > 0
    /\ \E a \in Amount, b \in Amount :
          /\ a # 0 /\ b # 0
          /\ NoRounding(Weight(original_debts, lastCall.a, lastCall.b), a, b)

\* C19: on a fresh ledger, update(A, B, x) then update(B, A, y) with
\* x > y > 0 leave exactly the entries A -> B: x and B -> A: y in
\* original_debts, and optimized_payment_process() then leaves exactly one
\* entry in optimized_debts, A -> B: x - y, original_debts staying as it is.
C19_OpposedDebtsNetted ==
    [][/\ (/\ calls = 1 /\ calls' = 2
           /\ lastCall.op = "update" /\ lastCall'.op = "update"
           /\ lastCall'.a = lastCall.b /\ lastCall'.b = lastCall.a
           /\ lastCall.a # lastCall.b
           /\ lastCall.amount > lastCall'.amount /\ lastCall'.amount > 0)
          => Edges(original_debts') = {<<lastCall.a, lastCall.b, lastCall.amount>>,
                                       <<lastCall.b, lastCall.a, lastCall'.amount>>}
       /\ (/\ calls = 2 /\ calls' = 3
           /\ lastCall.op = "update" /\ lastCall'.op = "optimized_payment_process"
           /\ lastCall.amount > 0
           /\ \E x \in Amount :
                 /\ x > lastCall.amount
                 /\ Edges(original_debts) = {<<lastCall.b, lastCall.a, x>>,
                                             <<lastCall.a, lastCall.b, lastCall.amount>>})
          => /\ Edges(optimized_debts')
                  = {<<lastCall.b, lastCall.a,
                       Weight(original_debts, lastCall.b, lastCall.a) - lastCall.amount>>}
             /\ original_debts' = original_debts]_vars

\* The settlement ran after update(A, B, x) and update(B, A, y), x > y > 0.
C19_Witness ==
    /\ calls = 3
    /\ lastCall.op = "optimized_payment_process"
    /\ \E A \in Caller, B \in Caller, x \in Amount, y \in Amount :
          /\ A # B /\ x > y /\ y > 0
          /\ Edges(original_debts) = {<<A, B, x>>, <<B, A, y>>}
          /\ Edges(optimized_debts) = {<<A, B, x - y>>}

\* C20: a call for group g finds g's engine in the registry, or makes it when
\* g has none, and uses that instance; a registry never drops or rebinds a
\* group; two groups never share a ledger or a hub; the call leaves the
\* ledger and the hub of every other group as they were.
LedgerCalls == {"get_payment_system", "update", "optimized_payment_process"}

Bound(registry, registry2, objects, objects2, g, ref) ==
    /\ IF g \in DOMAIN registry
       THEN registry2 = registry /\ Len(objects2) = Len(objects)
       ELSE /\ DOMAIN registry2 = DOMAIN registry \cup {g}
            /\ \A g2 \in DOMAIN registry : registry2[g2] = registry[g2]
            /\ objects2 = Append(objects, objects2[ref]) /\ ref = Len(objects2)
    /\ registry2[g] = ref
    /\ regCall'.created <=> g \notin DOMAIN registry
    /\ \A g1 \in DOMAIN registry2, g2 \in DOMAIN registry2 :
          g1 # g2 => registry2[g1] # registry2[g2]
    /\ \A g2 \in DOMAIN registry : g2 # g => objects2[registry2[g2]] = objects[registry[g2]]

C20_GroupIsolation ==
    [][(regCalls' = regCalls + 1)
       => IF regCall'.op \in LedgerCalls
          THEN /\ Bound(_payment_system, _payment_system', ledgers, ledgers',
                        regCall'.group, regCall'.ref)
               /\ (regCall'.op = "get_payment_system"
                   /\ regCall'.group \in DOMAIN _payment_system) => ledgers' = ledgers
               /\ regCall'.group \notin DOMAIN _payment_system
                  => ledgers'[regCall'.ref].group_id = regCall'.group
               /\ _info_hub' = _info_hub /\ hubs' = hubs
          ELSE /\ Bound(_info_hub, _info_hub', hubs, hubs', regCall'.group, regCall'.ref)
               /\ (regCall'.op = "get_info_hub" /\ regCall'.group \in DOMAIN _info_hub)
                  => hubs' = hubs
               /\ _payment_system' = _payment_system /\ ledgers' = ledgers]_vars

\* A call has changed the ledger one group already had while another group
\* holds a ledger with other debts.
C20_Witness ==
    /\ regCall.op = "update"
    /\ ~regCall.created
    /\ DOMAIN _payment_system = Group
    /\ Len(ledgers) = 2
    /\ regCalls = MaxGroupCalls
    /\ \A g \in Group : ledgers[_payment_system[g]].members # {}
    /\ ledgers[1].original_debts # ledgers[2].original_debts

\* ===================================================== concurrency claims
\* The <<engine, group, instance>> the calls of all threads have returned
\* (constructed) so far.
AllRefs == UNION {threads[t].refs : t \in Thread}

AllMade == UNION {threads[t].made : t \in Thread}

\* C21: first-access creation is exactly-once under concurrency: whatever
\* the interleaving of the callers of get_payment_system(g) (get_info_hub(g)),
\* at most one instance is ever constructed for g, every call, then and
\* later, returns the same instance for g, and the instance a caller was
\* handed (and may have written to) is the one the registry holds.
C21_CreatedExactlyOnce ==
    /\ \A x \in AllMade, y \in AllMade : x[1] = y[1] /\ x[2] = y[2] => x[3] = y[3]
    /\ \A x \in AllRefs, y \in AllRefs : x[1] = y[1] /\ x[2] = y[2] => x[3] = y[3]
    /\ \A x \in AllRefs : RegistryOf(x[1])[x[2]] = x[3]

\* The postings of document d in both indexes are those of its title and
\* content as stored.
FullyIndexed(h, d) ==
    \A token \in DOMAIN h.title_index \cup DOMAIN h.content_index
                 \cup DocTokens(h.documents[d]) :
        /\ LET entries == PostingsOf(h.title_index, token, d)
           IN /\ {entries[i] : i \in 1..Len(entries)}
                    = Occurrences(h.documents[d].title, token, d)
              /\ Len(entries) = Cardinality(Occurrences(h.documents[d].title, token, d))
        /\ LET entries == PostingsOf(h.content_index, token, d)
           IN /\ {entries[i] : i \in 1..Len(entries)}
                    = Occurrences(h.documents[d].content, token, d)
              /\ Len(entries) = Cardinality(Occurrences(h.documents[d].content, token, d))

\* Two add_document calls in progress that were given the same id.
SharedId ==
    \E t \in Thread, u \in Thread :
        /\ t # u
        /\ threads[t].op = "add_document" /\ threads[u].op = "add_document"
        /\ threads[t].pc \in {"store", "title", "content"}
        /\ threads[u].pc \in {"store", "title", "content"}
        /\ threads[t].doc_id = threads[u].doc_id

\* Thread t runs a search or a get_document in this step.
ReadBy(t) == threads[t].pc = "idle" /\ threads'[t].pc = "seen"

\* C22: hub mutations on one group are mutually exclusive: concurrent
\* add_document, update_document and delete_document calls leave what some
\* serial order of them leaves (so, once no call is in progress, indexes
\* that match the active documents, as every serial order does), two
\* add_document calls in progress never hold the same id, and a search or
\* get_document never returns a document whose postings are only partly
\* inserted or removed.
C22_HubMutationsExclusive ==
    /\ [](~SharedId)
    /\ []((\A t \in Thread : threads[t].pc = "idle") =>
             /\ IndexMatches(hub, hub.title_index, "title")
             /\ IndexMatches(hub, hub.content_index, "content"))
    /\ [][\A t \in Thread : ReadBy(t) =>
             \A d \in threads'[t].seen : FullyIndexed(hub, d)]_vars

\* The sum of the amounts the threads have sent along the edge f -> to.
RECURSIVE SentSum(_, _, _)
SentSum(sent, f, to) ==
    IF sent = <<>> THEN 0
    ELSE (IF Head(sent)[1] = f /\ Head(sent)[2] = to THEN Head(sent)[3] ELSE 0)
         + SentSum(Tail(sent), f, to)

RECURSIVE SentByAll(_, _, _)
SentByAll(T, f, to) ==
    IF T = {} THEN 0
    ELSE LET t == CHOOSE u \in T : TRUE
         IN SentSum(threads[t].sent, f, to) + SentByAll(T \ {t}, f, to)

\* C23: ledger mutations on one group are mutually exclusive: once the
\* concurrent update and optimized_payment_process calls have all finished,
\* every edge of original_debts holds the sum of the amounts sent along it
\* (no update is lost) and optimized_debts is the settlement of the final
\* original_debts.
C23_LedgerMutationsExclusive ==
    (\A t \in Thread : threads[t].pc = "idle") =>
        /\ \A f \in Caller, to \in Caller :
              DictGet(original_debts[f], to, 0) = SentByAll(Thread, f, to)
        /\ Edges(optimized_debts)
             = Edges(optimized_payment_process(members, original_debts,
                                               optimized_debts).optimized_debts)

\* ================================================================ C24, C25
\* C24: in every reachable hub state deleted_ids is exactly the set of ids
\* whose slot holds a tombstoned document, so no id is both active and in the
\* pool, and get_stats reports the number of active documents as
\* total_documents and the number of tombstoned slots as deleted_documents.
C24_PoolIsTombstones ==
    /\ hub.deleted_ids = Tombstoned(hub)
    /\ hub.deleted_ids \cap ActiveIds(hub) = {}
    /\ get_stats(hub).total_documents = Cardinality(ActiveIds(hub))
    /\ get_stats(hub).deleted_documents = Cardinality(Tombstoned(hub))

\* A delete_document has left one tombstoned slot next to an active document.
C24_Witness ==
    /\ hubCall.op = "delete_document"
    /\ hubCall.result = "True"
    /\ hub.deleted_ids = {hubCall.doc_id}
    /\ get_stats(hub).total_documents = 1
    /\ get_stats(hub).deleted_documents = 1

\* The first handler in registration order whose pattern matches, "" if none.
FirstMatch(user_input) ==
    IF \E i \in 1..Len(REGISTERED_HANDLERS) : REGEX_PATTERN(REGISTERED_HANDLERS[i], user_input)
    THEN REGISTERED_HANDLERS[CHOOSE i \in 1..Len(REGISTERED_HANDLERS) :
             /\ REGEX_PATTERN(REGISTERED_HANDLERS[i], user_input)
             /\ \A j \in 1..(i - 1) : ~REGEX_PATTERN(REGISTERED_HANDLERS[j], user_input)]
    ELSE ""

\* C25: process_chat_command finds the matching handler and executes it: for
\* an input that starts with '/' and matches the pattern of a registered
\* handler, the first such handler in registration order is executed for the
\* given group and its response returned; an input that does not start with
\* '/' gets a FALLBACK response and one that matches no handler an ERROR
\* response, both leaving every group's ledger and hub as they were.
C25_DispatchRunsHandler ==
    /\ [](response.action_type # "" =>
            LET user_input == response.user_input
            IN /\ ~StartsWithSlash(user_input) =>
                     response.action_type = "FALLBACK" /\ ~response.executed
               /\ StartsWithSlash(user_input) /\ FirstMatch(user_input) = "" =>
                     response.action_type = "ERROR" /\ ~response.executed
               /\ StartsWithSlash(user_input) /\ FirstMatch(user_input) # "" =>
                     /\ response.executed
                     /\ response.handler = FirstMatch(user_input))
    /\ [][(/\ regCall'.op = "process_chat_command"
           /\ regCalls' = regCalls + 1
           /\ response'.action_type \in {"FALLBACK", "ERROR"})
          => UNCHANGED <<_payment_system, _info_hub, ledgers, hubs>>]_vars

=============================================================================
